---------------------------- MODULE Spec2Model ----------------------------
(***************************************************************************)
(* A model of exchangelib/properties.py: the Fields schema container, the  *)
(* EWSElement entity engine (construction, attribute guard, clean, to_xml, *)
(* add_field / remove_field under the class-level lock).                    *)
(*                                                                         *)
(* The specifications that share the module:                               *)
(*   SpecFields  - a client that builds and edits Fields containers        *)
(*   SpecPure    - single calls of the container's constructing methods    *)
(*   SpecSchema  - threads that call add_field / remove_field on entity    *)
(*                 types while another thread reads the schemas            *)
(*   SpecEntity  - entities being constructed and assigned to              *)
(*   SpecMarshal - an entity being assigned to, cleaned and marshalled     *)
(*   SpecWire    - an entity marshalled and read back from its element     *)
(*   SpecHash    - entities built, assigned to, hashed and compared        *)
(*   SpecTransition - StandardTime / DaylightTime cleaned and unmarshalled *)
(*   SpecDerive  - TimeZone.from_server_timezone on server tables          *)
(*   SpecMatch   - TimeZone.to_server_timezone against a catalog           *)
(***************************************************************************)
EXTENDS Integers, Sequences, FiniteSets, TLC

VARIABLES
    heap,       \* the Fields objects that exist: a sequence, object id = position
    res,        \* SpecFields: the last container operation, its operands and outcome
    copies,     \* SpecFields: the pairs <<original, copy>> made by copy()
    own,        \* SpecSchema: per entity type, the id of the Fields object bound to
                \*   its own FIELDS class attribute, or 0 when it inherits the attribute
    lock,       \* SpecSchema: holder of EWSElement._fields_lock, or 0
    pc,         \* SpecSchema: per thread, the position inside add_field / remove_field
    call,       \* SpecSchema: per thread, the running (or last) call and its outcome
    loc,        \* SpecSchema: per thread, the locals idx and the loaded object ids
    ncalls,     \* SpecSchema: per thread, the number of calls started
    observed,   \* SpecSchema: what the reading thread saw last
    etype,      \* SpecEntity: the type of the entity, or "none" before the first one
    attrs,      \* SpecEntity: the attributes stored on the entity, name -> value
    cache,      \* SpecEntity: per type, its _slots_keys cache attribute
    eres,       \* SpecEntity: the last constructor call or assignment and its outcome
    schema,     \* SpecMarshal: the FIELDS of the entity's type
    values,     \* SpecMarshal: the value of each field of the entity
    elem,       \* SpecMarshal: the element the last to_xml call returned
    mres,       \* SpecMarshal: the last assignment, clean or to_xml call and its outcome
    parent,     \* SpecWire: the children of the parent of elem, elem itself being "self"
    ents,       \* SpecHash: the entities built so far, at most two
    hres,       \* SpecHash: the last construction, assignment, hash() or == and its outcome
    tzin,       \* SpecTransition, SpecDerive, SpecMatch: the operands of the call
    tzres       \* SpecTransition, SpecDerive, SpecMatch: the last call and its outcome

vars == <<heap, res, copies, own, lock, pc, call, loc, ncalls, observed,
          etype, attrs, cache, eres, schema, values, elem, mres, parent, ents, hres, tzin, tzres>>

fieldsVars == <<heap, res, copies>>
schemaVars == <<own, lock, pc, call, loc, ncalls, observed>>
entityVars == <<etype, attrs, cache, eres>>
marshalVars == <<schema, values, elem, mres, parent>>

hashVars == <<ents, hres>>

tzVars == <<tzin, tzres>>

(***************************************************************************)
(* Bounds of the model.                                                    *)
(***************************************************************************)
MaxLen == 2
MaxObjs == 2
MaxSliceLen == 3
MaxCalls == 2

(***************************************************************************)
(* Field descriptors.  A descriptor is an object with a name; two distinct *)
(* descriptors may carry the same name (uid tells them apart).             *)
(***************************************************************************)
Fld(n, u) == [name |-> n, uid |-> u]

FieldObjs == {Fld("a", 1), Fld("a", 2), Fld("b", 1), Fld("c", 1)}

\* The descriptors the editing client of SpecFields works with.
EditObjs == {Fld("a", 1), Fld("a", 2), Fld("b", 1)}

\* list.remove and list.index compare by identity first and then by ==.
FieldEq(f, g) == f = g

(***************************************************************************)
(* Outcomes of a call: a value, or the exception that left it.             *)
(***************************************************************************)
NoVal == [none |-> TRUE]

Ok(v) == [exc |-> "none", val |-> v]

Raise(e) == [exc |-> e, val |-> NoVal]

IsOk(r) == r.exc = "none"

(***************************************************************************)
(* Python dict and list primitives used by Fields.                         *)
(***************************************************************************)
EmptyDict == [n \in {} |-> NoVal]

DictSet(d, k, v) == [x \in (DOMAIN d) \cup {k} |-> IF x = k THEN v ELSE d[x]]

DictDel(d, k) == [x \in (DOMAIN d) \ {k} |-> d[x]]

\* list.insert(index, x): an index out of range is clamped, a negative one counts
\* from the end.
ListInsert(s, index, x) ==
    LET n == Len(s)
        at == IF index < 0
              THEN (IF index + n < 0 THEN 0 ELSE index + n)
              ELSE (IF index > n THEN n ELSE index)
    IN SubSeq(s, 1, at) \o <<x>> \o SubSeq(s, at + 1, n)

\* Position (1-based) of the first element equal to x, 0 when there is none.
ListFind(s, x) ==
    IF \E i \in 1..Len(s) : FieldEq(s[i], x)
    THEN CHOOSE i \in 1..Len(s) :
            /\ FieldEq(s[i], x)
            /\ \A j \in 1..(i - 1) : ~FieldEq(s[j], x)
    ELSE 0

\* list.remove(x): drops the first element equal to x, ValueError when absent.
ListRemove(s, x) ==
    LET i == ListFind(s, x)
    IN IF i = 0
       THEN Raise("ValueError")
       ELSE Ok(SubSeq(s, 1, i - 1) \o SubSeq(s, i + 1, Len(s)))

(***************************************************************************)
(* Fields.__init__: the list is filled, then the name index is built field *)
(* by field; the first repeated name raises ValueError.                    *)
(***************************************************************************)
RECURSIVE InitDict(_, _, _)
InitDict(fs, i, d) ==
    IF i > Len(fs)
    THEN Ok(d)
    ELSE IF fs[i].name \in DOMAIN d
         THEN Raise("ValueError")
         ELSE InitDict(fs, i + 1, DictSet(d, fs[i].name, fs[i]))

FieldsInit(fs) ==
    LET d == InitDict(fs, 1, EmptyDict)
    IN IF IsOk(d)
       THEN Ok([kind |-> "Fields", list |-> fs, dict |-> d.val])
       ELSE d

\* Fields.copy: self.__class__(*self)
FieldsCopy(c) == FieldsInit(c.list)

\* Mutant: the operands are joined the other way round.
FieldsAddSwapped(a, b) == FieldsInit(b.list \o a.list)

\* Fields.__add__: list concatenation, wrapped again by the constructor.
FieldsAdd(a, b) == FieldsInit(a.list \o b.list)

\* Mutant: a name that is not there counts as the last position.
IndexByNameOrLast(c, name) ==
    IF \E i \in 1..Len(c.list) : c.list[i].name = name
    THEN Ok((CHOOSE i \in 1..Len(c.list) :
                /\ c.list[i].name = name
                /\ \A j \in 1..(i - 1) : c.list[j].name # name) - 1)
    ELSE Ok(Len(c.list) - 1)

\* Fields.index_by_name: 0-based position of the first field of that name.
IndexByName(c, name) ==
    IF \E i \in 1..Len(c.list) : c.list[i].name = name
    THEN Ok((CHOOSE i \in 1..Len(c.list) :
                /\ c.list[i].name = name
                /\ \A j \in 1..(i - 1) : c.list[j].name # name) - 1)
    ELSE Raise("ValueError")

(***************************************************************************)
(* Fields.insert, statement by statement.                                  *)
(***************************************************************************)
\* Mutant: no duplicate check.
InsertNeverDuplicate(c, field) == FALSE

InsertIsDuplicate(c, field) == field.name \in DOMAIN c.dict

InsertIntoList(c, index, field) == [c EXCEPT !.list = ListInsert(c.list, index, field)]

InsertIntoDict(c, field) == [c EXCEPT !.dict = DictSet(c.dict, field.name, field)]

FieldsInsert(c, index, field) ==
    IF InsertIsDuplicate(c, field)
    THEN Raise("ValueError")
    ELSE Ok(InsertIntoDict(InsertIntoList(c, index, field), field))

(***************************************************************************)
(* Fields.remove, statement by statement.                                  *)
(***************************************************************************)
RemoveFromList(c, field) ==
    LET r == ListRemove(c.list, field)
    IN IF IsOk(r) THEN Ok([c EXCEPT !.list = r.val]) ELSE r

\* Mutant: the name index is not updated.
RemoveFromDictSkipped(c, field) == Ok(c)

RemoveFromDict(c, field) ==
    IF field.name \in DOMAIN c.dict
    THEN Ok([c EXCEPT !.dict = DictDel(c.dict, field.name)])
    ELSE Raise("KeyError")

FieldsRemove(c, field) ==
    LET r == RemoveFromList(c, field)
    IN IF IsOk(r) THEN RemoveFromDict(r.val, field) ELSE r

(***************************************************************************)
(* Slicing.  An omitted bound is the empty set, a given one a singleton.   *)
(* SliceIndices follows slice.indices(): the bounds are clamped according  *)
(* to the sign of the step.                                                *)
(***************************************************************************)
None == {}

Some(i) == {i}

Get(o) == CHOOSE i \in o : TRUE

SliceStep(step) == IF step = None THEN 1 ELSE Get(step)

SliceClamp(o, n, step, dflt) ==
    IF o = None
    THEN dflt
    ELSE LET v == IF Get(o) < 0 THEN Get(o) + n ELSE Get(o)
         IN IF v < 0
            THEN (IF step < 0 THEN -1 ELSE 0)
            ELSE IF v >= n
                 THEN (IF step < 0 THEN n - 1 ELSE n)
                 ELSE v

RECURSIVE SliceTake(_, _, _, _)
SliceTake(s, i, stop, step) ==
    IF (step > 0 /\ i < stop) \/ (step < 0 /\ i > stop)
    THEN <<s[i + 1]>> \o SliceTake(s, i + step, stop, step)
    ELSE <<>>

ListSlice(s, start, stop, step) ==
    LET n == Len(s)
        st == SliceStep(step)
        lo == SliceClamp(start, n, st, IF st < 0 THEN n - 1 ELSE 0)
        hi == SliceClamp(stop, n, st, IF st < 0 THEN -1 ELSE n)
    IN SliceTake(s, lo, hi, st)

\* Fields.__getitem__ with a slice: the list slice, wrapped by the constructor.
FieldsGetSlice(c, start, stop, step) ==
    IF SliceStep(step) = 0
    THEN Raise("ValueError")
    ELSE FieldsInit(ListSlice(c.list, start, stop, step))

\* Fields.__getitem__ with a str: lookup in the name index.
FieldsGetByName(c, name) ==
    IF name \in DOMAIN c.dict THEN Ok(c.dict[name]) ELSE Raise("KeyError")


(***************************************************************************)
(* SpecFields: a client that holds Fields containers and applies the       *)
(* container operations to them.                                           *)
(***************************************************************************)
Refs == 1..Len(heap)

IdxRange == (0 - MaxLen)..MaxLen

EditSliceIdx == {None, Some(0 - 1), Some(1)}

OptStep == {None, Some(1), Some(2), Some(0 - 1)}

EditSeqs == {<<>>} \cup {<<f>> : f \in EditObjs} \cup {<<f, g>> : f, g \in EditObjs}

NoRes == [op |-> "none", a |-> 0, b |-> 0, args |-> NoVal, exc |-> "none", out |-> 0]

\* The constant values the variables of the other specifications keep here.
SchemaUnused ==
    /\ own = NoVal /\ lock = 0 /\ pc = NoVal /\ call = NoVal
    /\ loc = NoVal /\ ncalls = NoVal /\ observed = NoVal

FieldsUnused == res = NoRes /\ copies = {}

EntityUnused == etype = NoVal /\ attrs = NoVal /\ cache = NoVal /\ eres = NoVal

MarshalUnused ==
    schema = NoVal /\ values = NoVal /\ elem = NoVal /\ mres = NoVal /\ parent = NoVal

HashUnused == ents = NoVal /\ hres = NoVal

TzUnused == tzin = NoVal /\ tzres = NoVal

\* The outcome r of a constructing operation: a new object on success.
Allocate(op, a, b, args, r) ==
    IF IsOk(r)
    THEN /\ heap' = Append(heap, r.val)
         /\ res' = [op |-> op, a |-> a, b |-> b, args |-> args, exc |-> "none",
                    out |-> Len(heap) + 1]
    ELSE /\ heap' = heap
         /\ res' = [op |-> op, a |-> a, b |-> b, args |-> args, exc |-> r.exc, out |-> 0]

\* The outcome r of an operation that edits object a in place.
Mutate(op, a, args, r) ==
    IF IsOk(r)
    THEN /\ heap' = [heap EXCEPT ![a] = r.val]
         /\ res' = [op |-> op, a |-> a, b |-> 0, args |-> args, exc |-> "none", out |-> a]
    ELSE /\ heap' = heap
         /\ res' = [op |-> op, a |-> a, b |-> 0, args |-> args, exc |-> r.exc, out |-> 0]

FNew(fs) ==
    /\ Len(heap) < MaxObjs
    /\ Allocate("init", 0, 0, [fs |-> fs], FieldsInit(fs))
    /\ UNCHANGED <<copies, schemaVars, entityVars, marshalVars, hashVars, tzVars>>

FInsert(a, index, field) ==
    /\ Len(heap[a].list) < MaxLen
    /\ Mutate("insert", a, [index |-> index, field |-> field],
              FieldsInsert(heap[a], index, field))
    /\ UNCHANGED <<copies, schemaVars, entityVars, marshalVars, hashVars, tzVars>>

FRemove(a, field) ==
    /\ Mutate("remove", a, [field |-> field], FieldsRemove(heap[a], field))
    /\ UNCHANGED <<copies, schemaVars, entityVars, marshalVars, hashVars, tzVars>>

FAdd(a, b) ==
    /\ Len(heap) < MaxObjs
    /\ Allocate("add", a, b, NoVal, FieldsAdd(heap[a], heap[b]))
    /\ UNCHANGED <<copies, schemaVars, entityVars, marshalVars, hashVars, tzVars>>

\* Mutant: copy() hands back the object it was called on.
SameObject(a) == a

\* The object a constructor call returns: one that did not exist before.
NewObject(a) == Len(heap) + 1

FCopy(a) ==
    /\ Len(heap) < MaxObjs
    /\ LET r == FieldsCopy(heap[a])
           t == NewObject(a)
       IN /\ heap' = IF t > Len(heap) THEN Append(heap, r.val) ELSE heap
          /\ res' = [op |-> "copy", a |-> a, b |-> 0, args |-> NoVal, exc |-> r.exc,
                     out |-> t]
          /\ copies' = copies \cup {<<a, t>>}
    /\ UNCHANGED <<schemaVars, entityVars, marshalVars, hashVars, tzVars>>

FSlice(a, start, stop, step) ==
    /\ Len(heap) < MaxObjs
    /\ Allocate("slice", a, 0, [step |-> step],
                FieldsGetSlice(heap[a], start, stop, step))
    /\ UNCHANGED <<copies, schemaVars, entityVars, marshalVars, hashVars, tzVars>>

InitFields ==
    /\ heap = <<>>
    /\ res = NoRes
    /\ copies = {}
    /\ SchemaUnused
    /\ EntityUnused
    /\ MarshalUnused
    /\ HashUnused
    /\ TzUnused

NextFields ==
    \/ \E fs \in EditSeqs : FNew(fs)
    \/ \E a \in Refs, index \in IdxRange, field \in EditObjs : FInsert(a, index, field)
    \/ \E a \in Refs, field \in EditObjs : FRemove(a, field)
    \/ \E a \in Refs, b \in Refs : FAdd(a, b)
    \/ \E a \in Refs : FCopy(a)
    \/ \E a \in Refs, start \in EditSliceIdx, stop \in EditSliceIdx, step \in OptStep :
          FSlice(a, start, stop, step)

SpecFields == InitFields /\ [][NextFields]_vars

(***************************************************************************)
(* SpecPure: copy, + and slicing as functions of their operands.  Init     *)
(* draws two containers built by the constructor; one operation is applied.*)
(***************************************************************************)
PureSeqs == UNION {[1..n -> FieldObjs] : n \in 0..MaxSliceLen}

PureContainers == {FieldsInit(fs).val : fs \in {x \in PureSeqs : IsOk(FieldsInit(x))}}

PureIdx == {None} \cup {Some(i) : i \in (0 - MaxSliceLen - 1)..(MaxSliceLen + 1)}

PureStep == OptStep \cup {Some(0), Some(0 - 2)}

InitPure ==
    /\ heap \in {<<a, b>> : a \in PureContainers, b \in PureContainers}
    /\ res = NoRes
    /\ copies = {}
    /\ SchemaUnused
    /\ EntityUnused
    /\ MarshalUnused
    /\ HashUnused
    /\ TzUnused

PCopy(a) ==
    /\ Allocate("copy", a, 0, NoVal, FieldsCopy(heap[a]))
    /\ UNCHANGED <<copies, schemaVars, entityVars, marshalVars, hashVars, tzVars>>

PAdd(a, b) ==
    /\ Allocate("add", a, b, NoVal, FieldsAdd(heap[a], heap[b]))
    /\ UNCHANGED <<copies, schemaVars, entityVars, marshalVars, hashVars, tzVars>>

PSlice(a, start, stop, step) ==
    /\ Allocate("slice", a, 0, [start |-> start, stop |-> stop, step |-> step],
                FieldsGetSlice(heap[a], start, stop, step))
    /\ UNCHANGED <<copies, schemaVars, entityVars, marshalVars, hashVars, tzVars>>

PureCopy == res.op = "none" /\ \E a \in Refs : PCopy(a)

PureAdd == res.op = "none" /\ \E a \in Refs, b \in Refs : PAdd(a, b)

PureSlice ==
    /\ res.op = "none"
    /\ \E start \in PureIdx, stop \in PureIdx, step \in PureStep : PSlice(1, start, stop, step)

NextPure == PureCopy \/ PureAdd \/ PureSlice

SpecPure == InitPure /\ [][NextPure]_vars

(***************************************************************************)
(* SpecSchema: the FIELDS class attribute of a few entity types, threads   *)
(* that run add_field / remove_field on them, and a thread that reads a    *)
(* type's schema without taking the lock.                                  *)
(*                                                                         *)
(* Mailbox declares FIELDS; DLMailbox inherits the attribute;              *)
(* EmailAddressTypeValue declares FIELDS = Mailbox.FIELDS + LOCAL_FIELDS.  *)
(***************************************************************************)
Types == {"Mailbox", "DLMailbox", "EmailAddressTypeValue"}

Parent(c) ==
    CASE c = "DLMailbox" -> "Mailbox"
      [] c = "EmailAddressTypeValue" -> "Mailbox"
      [] c = "PersonaPostalAddressTypeValue" -> "Mailbox"
      [] c = "OccurrenceItemId" -> "ItemId"
      [] c = "UserConfiguration" -> "IdChangeKeyMixIn"
      [] OTHER -> "EWSElement"

\* c itself and the types that derive from it.
SelfAndDescendants(c) == {c} \cup {d \in Types : Parent(d) = c}

MailboxFields == <<Fld("name", 1), Fld("email_address", 1)>>

LocalFields == <<Fld("original_display_name", 1)>>

\* The class bodies, evaluated at import time: objects 1 and 2.
InitHeap ==
    LET mailbox == FieldsInit(MailboxFields).val
        local == FieldsInit(LocalFields).val
    IN <<mailbox, FieldsAdd(mailbox, local).val>>

InitOwn ==
    [c \in Types |->
        CASE c = "Mailbox" -> 1
          [] c = "EmailAddressTypeValue" -> 2
          [] OTHER -> 0]

\* An object no reference leads to any more is freed; its id may be used again.
Freed == [kind |-> "freed"]

Collect(h, o, l) ==
    [i \in DOMAIN h |->
        IF (\E c \in Types : o[c] = i) \/ (\E t \in DOMAIN l : l[t].ref = i)
        THEN h[i]
        ELSE Freed]

FreeIds(h) == {i \in 1..(Len(h) + 1) : i > Len(h) \/ h[i] = Freed}

\* The object stored under a fresh id.
Store(h, i, c) == IF i > Len(h) THEN Append(h, c) ELSE [h EXCEPT ![i] = c]

\* Attribute lookup cls.FIELDS: the type's own attribute, else the parent's.
RECURSIVE ResolveIn(_, _)
ResolveIn(o, c) == IF o[c] # 0 THEN o[c] ELSE ResolveIn(o, Parent(c))

Resolve(c) == ResolveIn(own, c)

Mutators == {1, 2}

\* The arguments the threads call add_field and remove_field with.
NewFields == {Fld("x", 1), Fld("y", 1), Fld("name", 2)}

Anchors == {"name", "no_such_field"}

RemovableFields == {Fld("name", 1), Fld("x", 1)}

\* start is the sequence cls.FIELDS showed when the call began.
NoCall ==
    [op |-> "none", cls |-> "none", field |-> NoVal, after |-> "none", exc |-> "none",
     start |-> <<>>]

NoLoc == [idx |-> 0, ref |-> 0]

\* Mutant: the lock is not waited for.
LockIgnored(t) == TRUE

\* threading.Lock: the with statement blocks until the lock is free.
LockFree(t) == lock = 0

\* Mutant: add_field / remove_field edit the object cls.FIELDS resolves to.
CowInPlace(r) == r

\* cls.FIELDS.copy() returns an object that did not exist before.
CowObject(r) == CHOOSE i \in FreeIds(heap) : \A j \in FreeIds(heap) : i <= j

\* A call starts: `with cls._fields_lock:` is entered.
SBegin(t, op, c, field, after) ==
    /\ pc[t] = "idle"
    /\ ncalls[1] + ncalls[2] < MaxCalls
    /\ LockFree(t)
    /\ lock' = t
    /\ ncalls' = [ncalls EXCEPT ![t] = @ + 1]
    /\ call' = [call EXCEPT ![t] =
                   [op |-> op, cls |-> c, field |-> field, after |-> after, exc |-> "none",
                    start |-> heap[Resolve(c)].list]]
    /\ loc' = [loc EXCEPT ![t] = NoLoc]
    /\ pc' = [pc EXCEPT ![t] = IF op = "add_field" THEN "add_index" ELSE "copy"]
    /\ UNCHANGED <<heap, own, observed, res, copies, entityVars, marshalVars, hashVars, tzVars>>

\* idx = cls.FIELDS.index_by_name(insert_after) + 1
SAddIndex(t) ==
    /\ pc[t] = "add_index"
    /\ LET r == IndexByName(heap[Resolve(call[t].cls)], call[t].after)
       IN IF IsOk(r)
          THEN /\ loc' = [loc EXCEPT ![t].idx = r.val + 1]
               /\ pc' = [pc EXCEPT ![t] = "copy"]
               /\ call' = call
          ELSE /\ call' = [call EXCEPT ![t].exc = r.exc]
               /\ pc' = [pc EXCEPT ![t] = "release"]
               /\ loc' = loc
    /\ UNCHANGED <<heap, own, lock, ncalls, observed, res, copies, entityVars, marshalVars, hashVars, tzVars>>

\* cls.FIELDS.copy(): the right-hand side of the assignment
SCopy(t) ==
    /\ pc[t] = "copy"
    /\ LET src == Resolve(call[t].cls)
           new == CowObject(src)
       IN /\ heap' = IF new \in FreeIds(heap)
                      THEN Store(heap, new, FieldsCopy(heap[src]).val)
                      ELSE heap
          /\ loc' = [loc EXCEPT ![t].ref = new]
    /\ pc' = [pc EXCEPT ![t] = "store"]
    /\ UNCHANGED <<own, lock, call, ncalls, observed, res, copies, entityVars, marshalVars, hashVars, tzVars>>

\* Mutant: the assignment reaches the types that derive from cls as well.
SetOnDescendants(o, c, ref) == [d \in DOMAIN o |-> IF d \in SelfAndDescendants(c) THEN ref ELSE o[d]]

\* setattr(cls, 'FIELDS', ref): the attribute of cls itself, and of no other type.
SetOnType(o, c, ref) == [o EXCEPT ![c] = ref]

\* cls.FIELDS = <the copy>: the attribute is set on cls itself
SStore(t) ==
    /\ pc[t] = "store"
    /\ own' = SetOnType(own, call[t].cls, loc[t].ref)
    /\ loc' = [loc EXCEPT ![t].ref = 0]
    /\ heap' = Collect(heap, own', loc')
    /\ pc' = [pc EXCEPT ![t] = "load"]
    /\ UNCHANGED <<lock, call, ncalls, observed, res, copies, entityVars, marshalVars, hashVars, tzVars>>

\* cls.FIELDS is looked up again, for .insert(...) or .remove(...)
SLoad(t) ==
    /\ pc[t] = "load"
    /\ loc' = [loc EXCEPT ![t].ref = Resolve(call[t].cls)]
    /\ pc' = [pc EXCEPT ![t] = IF call[t].op = "add_field" THEN "ins_check" ELSE "rm_list"]
    /\ UNCHANGED <<heap, own, lock, call, ncalls, observed, res, copies, entityVars, marshalVars, hashVars, tzVars>>

\* Fields.insert: if field.name in self._dict: raise ValueError
SInsCheck(t) ==
    /\ pc[t] = "ins_check"
    /\ IF InsertIsDuplicate(heap[loc[t].ref], call[t].field)
       THEN /\ call' = [call EXCEPT ![t].exc = "ValueError"]
            /\ pc' = [pc EXCEPT ![t] = "release"]
       ELSE /\ call' = call
            /\ pc' = [pc EXCEPT ![t] = "ins_list"]
    /\ UNCHANGED <<heap, own, lock, loc, ncalls, observed, res, copies, entityVars, marshalVars, hashVars, tzVars>>

\* Fields.insert: super().insert(index, field)
SInsList(t) ==
    /\ pc[t] = "ins_list"
    /\ heap' = [heap EXCEPT ![loc[t].ref] = InsertIntoList(@, loc[t].idx, call[t].field)]
    /\ pc' = [pc EXCEPT ![t] = "ins_dict"]
    /\ UNCHANGED <<own, lock, call, loc, ncalls, observed, res, copies, entityVars, marshalVars, hashVars, tzVars>>

\* Fields.insert: self._dict[field.name] = field
SInsDict(t) ==
    /\ pc[t] = "ins_dict"
    /\ heap' = [heap EXCEPT ![loc[t].ref] = InsertIntoDict(@, call[t].field)]
    /\ pc' = [pc EXCEPT ![t] = "release"]
    /\ UNCHANGED <<own, lock, call, loc, ncalls, observed, res, copies, entityVars, marshalVars, hashVars, tzVars>>

\* Fields.remove: super().remove(field)
SRmList(t) ==
    /\ pc[t] = "rm_list"
    /\ LET r == RemoveFromList(heap[loc[t].ref], call[t].field)
       IN IF IsOk(r)
          THEN /\ heap' = [heap EXCEPT ![loc[t].ref] = r.val]
               /\ pc' = [pc EXCEPT ![t] = "rm_dict"]
               /\ call' = call
          ELSE /\ heap' = heap
               /\ pc' = [pc EXCEPT ![t] = "release"]
               /\ call' = [call EXCEPT ![t].exc = r.exc]
    /\ UNCHANGED <<own, lock, loc, ncalls, observed, res, copies, entityVars, marshalVars, hashVars, tzVars>>

\* Fields.remove: del self._dict[field.name]
SRmDict(t) ==
    /\ pc[t] = "rm_dict"
    /\ LET r == RemoveFromDict(heap[loc[t].ref], call[t].field)
       IN IF IsOk(r)
          THEN /\ heap' = [heap EXCEPT ![loc[t].ref] = r.val]
               /\ call' = call
          ELSE /\ heap' = heap
               /\ call' = [call EXCEPT ![t].exc = r.exc]
    /\ pc' = [pc EXCEPT ![t] = "release"]
    /\ UNCHANGED <<own, lock, loc, ncalls, observed, res, copies, entityVars, marshalVars, hashVars, tzVars>>

\* The with block is left, normally or by an exception: the lock is released.
SRelease(t) ==
    /\ pc[t] = "release"
    /\ lock' = 0
    /\ loc' = [loc EXCEPT ![t] = NoLoc]
    /\ heap' = Collect(heap, own, loc')
    /\ pc' = [pc EXCEPT ![t] = "idle"]
    /\ UNCHANGED <<own, call, ncalls, observed, res, copies, entityVars, marshalVars, hashVars, tzVars>>

\* Another thread reads cls.FIELDS without the lock and compares the names of its
\* sequence with the keys of its name index.
SRead(c) ==
    /\ LET fields == heap[Resolve(c)]
       IN observed' = [cls |-> c,
                       agree |-> {fields.list[i].name : i \in 1..Len(fields.list)}
                                    = DOMAIN fields.dict]
    /\ observed' # observed
    /\ UNCHANGED <<heap, own, lock, pc, call, loc, ncalls, res, copies, entityVars, marshalVars, hashVars, tzVars>>

InitSchema ==
    /\ heap = InitHeap
    /\ own = InitOwn
    /\ lock = 0
    /\ pc = [t \in Mutators |-> "idle"]
    /\ call = [t \in Mutators |-> NoCall]
    /\ loc = [t \in Mutators |-> NoLoc]
    /\ ncalls = [t \in Mutators |-> 0]
    /\ observed = NoVal
    /\ FieldsUnused
    /\ EntityUnused
    /\ MarshalUnused
    /\ HashUnused
    /\ TzUnused

SStep(t) ==
    \/ \E c \in Types, f \in NewFields, a \in Anchors : SBegin(t, "add_field", c, f, a)
    \/ \E c \in Types, f \in RemovableFields : SBegin(t, "remove_field", c, f, "none")
    \/ SAddIndex(t)
    \/ SCopy(t)
    \/ SStore(t)
    \/ SLoad(t)
    \/ SInsCheck(t)
    \/ SInsList(t)
    \/ SInsDict(t)
    \/ SRmList(t)
    \/ SRmDict(t)
    \/ SRelease(t)

NextSchema ==
    \/ \E t \in Mutators : SStep(t)
    \/ \E c \in Types : SRead(c)

SpecSchema == InitSchema /\ [][NextSchema]_vars

(***************************************************************************)
(* SpecEntity: entities of a few types of properties.py being constructed  *)
(* and assigned to.  Every entity class of the module declares __slots__,  *)
(* so an instance stores a value only under a slot of its type or of an    *)
(* ancestor.  The field lists are cut to their first fields.               *)
(*                                                                         *)
(* ItemId declares id and changekey; OccurrenceItemId derives from it and  *)
(* adds instance_index; PersonaPostalAddressTypeValue derives from Mailbox *)
(* and declares a FIELDS of its own, so the slots of Mailbox stay as       *)
(* non-field attributes; UserConfiguration is an IdChangeKeyMixIn.         *)
(***************************************************************************)
MaxKwargs == 2

Range(s) == {s[i] : i \in 1..Len(s)}

\* Values of attributes: None, '', a non-empty str, an empty and a non-empty list,
\* and a value the validation of a field rejects.
Val(k, n) == [kind |-> k, len |-> n]

ValNone == Val("None", 0)

ValEmptyText == Val("str", 0)

ValText == Val("str", 1)

ValEmptyList == Val("list", 0)

ValList == Val("list", 1)

ValInvalid == Val("invalid", 1)

\* An ItemId instance with its two attributes.
IdObj(i, c) == [kind |-> "ItemId", id |-> i, changekey |-> c]

\* bool(v)
Truthy(v) == v.kind = "ItemId" \/ v.len > 0

ETypes ==
    {"ItemId", "OccurrenceItemId", "Mailbox", "PersonaPostalAddressTypeValue",
     "UserConfiguration"}

\* The names of cls.FIELDS, in order.
EFields(c) ==
    CASE c = "ItemId" -> <<"id", "changekey">>
      [] c = "OccurrenceItemId" -> <<"id", "changekey", "instance_index">>
      [] c = "Mailbox" -> [i \in 1..Len(MailboxFields) |-> MailboxFields[i].name]
      [] c = "PersonaPostalAddressTypeValue" -> <<"street", "city">>
      [] c = "UserConfiguration" -> <<"_id", "dictionary">>
      [] OTHER -> <<>>

\* The __slots__ a class body declares.
OwnSlots(c) ==
    CASE c = "ItemId" -> <<"id", "changekey">>
      [] c = "OccurrenceItemId" -> <<"instance_index">>
      [] c = "Mailbox" -> [i \in 1..Len(MailboxFields) |-> MailboxFields[i].name]
      [] c = "PersonaPostalAddressTypeValue" -> <<"street", "city">>
      [] c = "UserConfiguration" -> <<"_id", "dictionary">>
      [] OTHER -> <<>>

\* getmro(cls), without object, which has no __slots__.
RECURSIVE Mro(_)
Mro(c) == IF c = "EWSElement" THEN <<c>> ELSE <<c>> \o Mro(Parent(c))

\* The properties with a setter that the type has.
Props(c) == IF "IdChangeKeyMixIn" \in Range(Mro(c)) THEN {"id", "changekey"} ELSE {}

\* Names every entity class defines at class level: a constant and a method.
ClassAttrs == {"ELEMENT_NAME", "clean"}

\* The inner loop of _slots_keys: the slots of one class, those seen left out.
RECURSIVE AppendUnseen(_, _, _)
AppendUnseen(keys, ks, i) ==
    IF i > Len(ks) THEN keys
    ELSE AppendUnseen(IF ks[i] \in Range(keys) THEN keys ELSE Append(keys, ks[i]),
                      ks, i + 1)

\* The outer loop of _slots_keys, over reversed(getmro(cls)).
RECURSIVE WalkMro(_, _, _)
WalkMro(keys, mro, j) ==
    IF j = 0 THEN keys
    ELSE WalkMro(AppendUnseen(keys, OwnSlots(mro[j]), 1), mro, j - 1)

ComputeSlotsKeys(c) == WalkMro(<<>>, Mro(c), Len(Mro(c)))

\* _slots_keys when the class has no cache attribute yet: setattr(cls, attr_name, keys)
SlotsKeysMiss(c, ca, keys) == [keys |-> keys, cache |-> [ca EXCEPT ![c] = Some(keys)]]

\* _slots_keys: the cached list, computed and stored on the class at the first call.
\* The cache attribute carries the name of the class, and no two classes of the
\* module share a name.
SlotsKeys(c, ca) ==
    IF ca[c] = None THEN SlotsKeysMiss(c, ca, ComputeSlotsKeys(c))
    ELSE [keys |-> Get(ca[c]), cache |-> ca]

\* Outcomes of an assignment or of a constructor: the attributes and the caches it
\* leaves, and the exception it raised.
EOk(at, ca) == [exc |-> "none", attrs |-> at, cache |-> ca]

ERaise(e, at, ca) == [exc |-> e, attrs |-> at, cache |-> ca]

SlotStore(at, key, val) == DictSet(at, key, val)

\* self._id.id = value / self._id.changekey = value, on the ItemId idv
PropStore(at, ca, key, val, idv) ==
    IF idv.kind # "ItemId" THEN ERaise("AttributeError", at, ca)
    ELSE EOk(SlotStore(at, "_id",
                       IF key = "id" THEN [idv EXCEPT !.id = val]
                       ELSE [idv EXCEPT !.changekey = val]),
             ca)

\* Mutant: the setter makes a new ItemId at every write.
PropSetFresh(c, at, ca, key, val) ==
    IF "_id" \notin DOMAIN at THEN ERaise("AttributeError", at, ca)
    ELSE PropStore(at, SlotsKeys("ItemId", ca).cache, key, val, IdObj(ValNone, ValNone))

\* The setter of the id and changekey properties.  The ItemId() it creates when
\* _id is None calls _slots_keys of ItemId.
PropSet(c, at, ca, key, val) ==
    IF "_id" \notin DOMAIN at THEN ERaise("AttributeError", at, ca)
    ELSE IF at["_id"] = ValNone
         THEN PropStore(at, SlotsKeys("ItemId", ca).cache, key, val, IdObj(ValNone, ValNone))
         ELSE PropStore(at, ca, key, val, at["_id"])

\* The getter of the id and changekey properties, _id being None or an ItemId.
PropGet(at, key) ==
    IF at["_id"] = ValNone THEN ValNone
    ELSE IF key = "id" THEN at["_id"].id ELSE at["_id"].changekey

\* Mutant: instances carry a __dict__, so object.__setattr__ stores any name.
ObjSetAttrDict(c, at, ca, key, val) == EOk(SlotStore(at, key, val), ca)

\* super().__setattr__(key, value): object.__setattr__ on an instance without
\* __dict__ stores under a slot descriptor, calls a property's setter, and raises
\* AttributeError for every other name.
ObjSetAttr(c, at, ca, key, val) ==
    IF key \in Range(ComputeSlotsKeys(c)) THEN EOk(SlotStore(at, key, val), ca)
    ELSE IF key \in Props(c) THEN PropSet(c, at, ca, key, val)
    ELSE ERaise("AttributeError", at, ca)

\* key in self.FIELDS
InFields(c, key) == key \in Range(EFields(c))

\* The getter of the id and changekey properties returns without raising.
GetterOk(at) == "_id" \in DOMAIN at /\ at["_id"].kind \in {"None", "ItemId"}

\* hasattr(self, key) for a key that is not a slot of the type.
HasAttr(c, at, key) ==
    \/ key \in DOMAIN at
    \/ key \in Props(c) /\ GetterOk(at)
    \/ key \in ClassAttrs

\* EWSElement.__setattr__ past the FIELDS test, sk being what _slots_keys() returned.
SetAttrNonField(c, at, key, val, sk) ==
    IF key \in Range(sk.keys) \/ HasAttr(c, at, key)
    THEN ObjSetAttr(c, at, sk.cache, key, val)
    ELSE ERaise("AttributeError", at, sk.cache)

\* EWSElement.__setattr__
SetAttr(c, at, ca, key, val) ==
    IF InFields(c, key) THEN ObjSetAttr(c, at, ca, key, val)
    ELSE SetAttrNonField(c, at, key, val, SlotsKeys(c, ca))

\* Mutant: the value is read from kwargs and the key stays.
KwargsKeep(kw, name) == kw

\* kwargs.pop(name, None), the dict it leaves.
KwargsPop(kw, name) == [n \in DOMAIN kw \ {name} |-> kw[n]]

\* kwargs.pop(name, None), the value it returns.
KwargsGet(kw, name) == IF name \in DOMAIN kw THEN kw[name] ELSE ValNone

\* The loop of EWSElement.__init__ from field i on.
RECURSIVE InitLoop(_, _, _, _, _)

\* One round of the loop, r being the outcome of its setattr.
InitStep(c, kw, i, r) ==
    IF r.exc # "none"
    THEN [exc |-> r.exc, attrs |-> r.attrs, cache |-> r.cache, kwargs |-> kw]
    ELSE InitLoop(c, r.attrs, r.cache, KwargsPop(kw, EFields(c)[i]), i + 1)

InitLoop(c, at, ca, kw, i) ==
    IF i > Len(EFields(c)) THEN [exc |-> "none", attrs |-> at, cache |-> ca, kwargs |-> kw]
    ELSE InitStep(c, kw, i, SetAttr(c, at, ca, EFields(c)[i], KwargsGet(kw, EFields(c)[i])))

\* The end of EWSElement.__init__: names holds the keys the AttributeError lists.
InitCheck(r) ==
    IF r.exc = "none" /\ DOMAIN r.kwargs # {}
    THEN [exc |-> "AttributeError", names |-> DOMAIN r.kwargs,
          attrs |-> r.attrs, cache |-> r.cache]
    ELSE [exc |-> r.exc, names |-> {}, attrs |-> r.attrs, cache |-> r.cache]

\* EWSElement.__init__
ElementInit(c, ca, kw) == InitCheck(InitLoop(c, EmptyDict, ca, kw, 1))

Min(a, b) == IF a < b THEN a ELSE b

\* dict(zip(keys, args))
Zip(keys, args) ==
    [k \in {keys[i] : i \in 1..Min(Len(keys), Len(args))} |->
        args[CHOOSE i \in 1..Min(Len(keys), Len(args)) : keys[i] = k]]

\* kwargs = dict(zip(self._slots_keys(), args))
ZipSlots(args, sk) == [kwargs |-> Zip(sk.keys, args), cache |-> sk.cache]

\* The kwargs ItemId.__init__ hands on, and the caches it leaves.
ItemIdKwargs(c, ca, args, kw) ==
    IF DOMAIN kw = {} THEN ZipSlots(args, SlotsKeys(c, ca))
    ELSE [kwargs |-> kw, cache |-> ca]

\* super().__init__(**kwargs)
SuperInit(c, a) == ElementInit(c, a.cache, a.kwargs)

\* ItemId.__init__
ItemIdInit(c, ca, args, kw) == SuperInit(c, ItemIdKwargs(c, ca, args, kw))

\* The kwargs IdChangeKeyMixIn.__init__ hands on, id being the ItemId it built.
MixinKwargs(kw, id) ==
    IF Truthy(id.id) \/ Truthy(id.changekey)
    THEN DictSet(KwargsPop(KwargsPop(kw, "id"), "changekey"), "_id", id)
    ELSE KwargsPop(KwargsPop(kw, "id"), "changekey")

\* IdChangeKeyMixIn.__init__ after r, the construction of the ItemId.
MixinRest(c, kw, r) ==
    ElementInit(c, r.cache, MixinKwargs(kw, IdObj(r.attrs["id"], r.attrs["changekey"])))

\* IdChangeKeyMixIn.__init__, with ID_ELEMENT_CLS = ItemId
MixinInit(c, ca, kw) ==
    MixinRest(c, kw,
              ItemIdInit("ItemId", ca, <<KwargsGet(kw, "id"), KwargsGet(kw, "changekey")>>,
                         EmptyDict))

\* cls(**kwargs)
Construct(c, ca, kw) ==
    IF Props(c) # {} THEN MixinInit(c, ca, kw)
    ELSE IF "ItemId" \in Range(Mro(c)) THEN ItemIdInit(c, ca, <<>>, kw)
    ELSE ElementInit(c, ca, kw)

AttrValues == {ValNone, ValEmptyText, ValText}

\* The keyword names a caller passes: the declared ones, id and changekey, and two
\* names no type knows.
KwargNames(c) == Range(EFields(c)) \cup {"id", "changekey", "typo", "colour"}

KwargSets(c) ==
    UNION {[K -> AttrValues] :
              K \in {S \in SUBSET KwargNames(c) : Cardinality(S) <= MaxKwargs}}

\* The names a caller assigns to: every slot and field of every type, the
\* properties, the class-level names and a name no type knows.
SetKeys ==
    UNION {Range(ComputeSlotsKeys(c)) \cup Range(EFields(c)) : c \in ETypes}
        \cup {"id", "changekey"} \cup ClassAttrs \cup {"typo"}

NoEres ==
    [op |-> "none", type |-> "none", keys |-> {}, key |-> "", val |-> ValNone,
     exc |-> "none", names |-> {}]

\* The state a constructor call leaves, r being its outcome: the name entity is bound
\* only when the constructor returns.
Constructed(c, kw, r) ==
    /\ cache' = r.cache
    /\ IF r.exc = "none"
       THEN etype' = c /\ attrs' = r.attrs
       ELSE UNCHANGED <<etype, attrs>>
    /\ eres' = [op |-> "init", type |-> c, keys |-> DOMAIN kw, key |-> "", val |-> ValNone,
                exc |-> r.exc, names |-> r.names]

\* entity = c(**kw).  A behaviour follows one entity, so no constructor runs once
\* it exists.
EConstruct(c, kw) ==
    /\ etype = "none"
    /\ Constructed(c, kw, Construct(c, cache, kw))
    /\ UNCHANGED <<fieldsVars, schemaVars, marshalVars, hashVars, tzVars>>

\* The state an assignment leaves, r being its outcome.
Assigned(key, val, r) ==
    /\ attrs' = r.attrs
    /\ cache' = r.cache
    /\ eres' = [op |-> "setattr", type |-> etype, keys |-> {}, key |-> key, val |-> val,
                exc |-> r.exc, names |-> {}]

\* entity.key = val
ESetAttr(key, val) ==
    /\ etype # "none"
    /\ Assigned(key, val, SetAttr(etype, attrs, cache, key, val))
    /\ UNCHANGED <<etype, fieldsVars, schemaVars, marshalVars, hashVars, tzVars>>

InitEntity ==
    /\ etype = "none"
    /\ attrs = EmptyDict
    /\ cache = [c \in ETypes |-> None]
    /\ eres = NoEres
    /\ heap = <<>>
    /\ FieldsUnused
    /\ SchemaUnused
    /\ MarshalUnused
    /\ HashUnused
    /\ TzUnused

NextEntity ==
    \/ \E c \in ETypes : \E kw \in KwargSets(c) : EConstruct(c, kw)
    \/ \E key \in SetKeys, val \in AttrValues : ESetAttr(key, val)

SpecEntity == InitEntity /\ [][NextEntity]_vars

(***************************************************************************)
(* SpecMarshal: one entity of a type with two fields, assigned to, cleaned *)
(* and marshalled for a protocol version.  The type is an input: each      *)
(* field is bound to an attribute or to a child element, may be read-only, *)
(* a list, required, and supported in a range of versions.                 *)
(***************************************************************************)
MaxVersion == 2

Versions == 1..MaxVersion

\* deprecated_from of a field that is never deprecated.
Never == MaxVersion + 1

VersionRanges ==
    {[from |-> f, to |-> Never] : f \in Versions} \cup {[from |-> 1, to |-> MaxVersion]}

FieldDescs(n) ==
    {[name |-> n, is_attribute |-> a, is_read_only |-> r, is_list |-> l,
      is_required |-> q, supported_from |-> g.from, deprecated_from |-> g.to] :
        a \in BOOLEAN, r \in BOOLEAN, l \in BOOLEAN, q \in BOOLEAN, g \in VersionRanges}

Schemas == {<<f, g>> : f \in FieldDescs("a"), g \in FieldDescs("b")}

\* Field.supports_version: supported_from <= version < deprecated_from
SupportsVersion(f, v) == f.supported_from <= v /\ v < f.deprecated_from

\* Field.clean: a required field must have a value, a value must be a legal one.
FieldClean(f, val) ==
    IF val = ValNone
    THEN IF f.is_required THEN [exc |-> "MissingRequiredField", val |-> val]
         ELSE [exc |-> "none", val |-> val]
    ELSE IF val = ValInvalid THEN [exc |-> "OutOfRange", val |-> val]
    ELSE [exc |-> "none", val |-> val]

\* The loop of EWSElement.clean from field i on, for a version that is given.
RECURSIVE CleanFrom(_, _, _, _)
CleanFrom(sch, vals, v, i) ==
    IF i > Len(sch) THEN [exc |-> "none", field |-> "", values |-> vals]
    ELSE LET f == sch[i]
         IN IF ~SupportsVersion(f, v) THEN CleanFrom(sch, vals, v, i + 1)
            ELSE LET r == FieldClean(f, vals[f.name])
                 IN IF r.exc # "none"
                    THEN [exc |-> r.exc, field |-> f.name, values |-> vals]
                    ELSE CleanFrom(sch, [vals EXCEPT ![f.name] = r.val], v, i + 1)

\* Mutant: clean validates nothing.
CleanNothing(sch, vals, v) == [exc |-> "none", field |-> "", values |-> vals]

\* EWSElement.clean(version=v)
Clean(sch, vals, v) == CleanFrom(sch, vals, v, 1)

AttributeFields(sch) == SelectSeq(sch, LAMBDA f : f.is_attribute)

SupportedFields(sch, v) ==
    SelectSeq(sch, LAMBDA f : ~f.is_attribute /\ SupportsVersion(f, v))

\* Mutant: a read-only field is written like any other.
SkippedIfEmpty(f, val) == val = ValNone \/ (f.is_list /\ ~Truthy(val))

\* The two tests that make a loop of to_xml pass over a field.
Skipped(f, val) == f.is_read_only \/ val = ValNone \/ (f.is_list /\ ~Truthy(val))

\* The names of the fields of fs that a loop of to_xml writes, in order.
Emitted(fs, vals) ==
    LET kept == SelectSeq(fs, LAMBDA f : ~Skipped(f, vals[f.name]))
    IN [i \in 1..Len(kept) |-> kept[i].name]

NoElem == [built |-> FALSE, attrs |-> <<>>, children |-> <<>>, log |-> <<>>,
           content |-> EmptyDict]

\* create_element(self.request_tag())
NewElem == [built |-> TRUE, attrs |-> <<>>, children |-> <<>>, log |-> <<>>,
            content |-> EmptyDict]

\* value_to_xml_text / Field.to_xml: the wire form of a value.
ToWire(val) == [wire |-> val.kind, size |-> val.len]

\* Field.from_xml: the value of a wire form.
FromWire(w) == Val(w.wire, w.size)

\* The wire forms the element holds once the fields called names are written.
Filled(content, names, vals) ==
    [n \in DOMAIN content \cup Range(names) |->
        IF n \in Range(names) THEN ToWire(vals[n]) ELSE content[n]]

\* The first loop of to_xml: elem.set(f.field_uri, ...) for each name, in order.
AddAttributes(e, names, vals) ==
    [e EXCEPT !.attrs = @ \o names,
              !.log = @ \o [i \in 1..Len(names) |-> [op |-> "set", name |-> names[i]]],
              !.content = Filled(@, names, vals)]

\* The second loop of to_xml: set_xml_value(elem, ...) for each name, in order.
AddChildren(e, names, vals) ==
    [e EXCEPT !.children = @ \o names,
              !.log = @ \o [i \in 1..Len(names) |-> [op |-> "append", name |-> names[i]]],
              !.content = Filled(@, names, vals)]

\* to_xml after clean, c being the outcome of clean.
ToXmlCleaned(sch, v, c) ==
    IF c.exc # "none"
    THEN [exc |-> c.exc, field |-> c.field, values |-> c.values, elem |-> NoElem]
    ELSE [exc |-> "none", field |-> "", values |-> c.values,
          elem |-> AddChildren(AddAttributes(NewElem,
                                             Emitted(AttributeFields(sch), c.values),
                                             c.values),
                               Emitted(SupportedFields(sch, v), c.values),
                               c.values)]

\* EWSElement.to_xml
ToXml(sch, vals, v) == ToXmlCleaned(sch, v, Clean(sch, vals, v))

\* The values a caller gives to a field.
MarshalValues(f) ==
    IF f.is_list THEN {ValNone, ValEmptyList, ValList} ELSE {ValNone, ValText, ValInvalid}

NoMres == [op |-> "none", version |-> 0, field |-> "", exc |-> "none"]

\* entity.name = val, for a declared field
MSet(i, val) ==
    /\ val \in MarshalValues(schema[i])
    /\ values' = [values EXCEPT ![schema[i].name] = val]
    /\ mres' = [op |-> "set", version |-> 0, field |-> schema[i].name, exc |-> "none"]
    /\ elem' = NoElem
    /\ UNCHANGED <<schema, parent, fieldsVars, schemaVars, entityVars, hashVars, tzVars>>

\* entity.clean(version=v)
MClean(v) ==
    /\ LET r == Clean(schema, values, v)
       IN /\ values' = r.values
          /\ mres' = [op |-> "clean", version |-> v, field |-> r.field, exc |-> r.exc]
    /\ elem' = NoElem
    /\ UNCHANGED <<schema, parent, fieldsVars, schemaVars, entityVars, hashVars, tzVars>>

\* entity.to_xml(version=v)
MToXml(v) ==
    /\ LET r == ToXml(schema, values, v)
       IN /\ values' = r.values
          /\ elem' = r.elem
          /\ mres' = [op |-> "to_xml", version |-> v, field |-> r.field, exc |-> r.exc]
    /\ UNCHANGED <<schema, parent, fieldsVars, schemaVars, entityVars, hashVars, tzVars>>

InitMarshal ==
    /\ schema \in Schemas
    /\ values = [n \in {schema[i].name : i \in 1..Len(schema)} |-> ValNone]
    /\ elem = NoElem
    /\ mres = NoMres
    /\ parent = <<>>
    /\ heap = <<>>
    /\ FieldsUnused
    /\ SchemaUnused
    /\ EntityUnused
    /\ HashUnused
    /\ TzUnused

NextMarshal ==
    \/ \E i \in 1..Len(schema), val \in {ValNone, ValText, ValInvalid, ValEmptyList, ValList} :
          MSet(i, val)
    \/ \E v \in Versions : MClean(v)
    \/ \E v \in Versions : MToXml(v)

SpecMarshal == InitMarshal /\ [][NextMarshal]_vars

(***************************************************************************)
(* SpecWire: an entity with given values is marshalled for a version, the  *)
(* element may be placed under a parent between other children, and an     *)
(* entity is read back from it with from_xml.                              *)
(***************************************************************************)
\* Field.from_xml: the value under the field's attribute or child, None if absent.
FieldFromXml(f, e) ==
    IF f.is_attribute
    THEN IF f.name \in Range(e.attrs) THEN FromWire(e.content[f.name]) ELSE ValNone
    ELSE IF f.name \in Range(e.children) THEN FromWire(e.content[f.name]) ELSE ValNone

\* kwargs = {f.name: f.from_xml(elem=elem, account=account) for f in cls.FIELDS}
Extract(sch, e) ==
    [n \in {sch[i].name : i \in 1..Len(sch)} |->
        FieldFromXml(sch[CHOOSE i \in 1..Len(sch) : sch[i].name = n], e)]

\* elem.clear()
Clear(e) == [e EXCEPT !.attrs = <<>>, !.children = <<>>, !.content = EmptyDict]

\* Mutant: the siblings before the element are removed with it.
DetachWithPrevious(p) ==
    IF "self" \notin Range(p) THEN p
    ELSE SubSeq(p, 1 + (CHOOSE i \in 1..Len(p) : p[i] = "self"), Len(p))

\* parent = elem.getparent(); if parent is None: return; parent.remove(elem)
Detach(p) == SelectSeq(p, LAMBDA x : x # "self")

\* Mutant: the element is released before the fields read it.
FromXmlClearFirst(sch, e, p) ==
    [kwargs |-> Extract(sch, Clear(e)), elem |-> Clear(e), parent |-> Detach(p)]

\* EWSElement.from_xml: the kwargs handed to cls, the element and its parent after.
FromXml(sch, e, p) ==
    [kwargs |-> Extract(sch, e), elem |-> Clear(e), parent |-> Detach(p)]

\* The places a caller puts the element in: alone, or between two other children.
Siblings == {<<"self">>, <<"prev", "self", "next">>}

WireStart == [op |-> "none", version |-> 0, field |-> "", exc |-> "none", orig |-> NoVal]

\* elem = entity.to_xml(version=v)
WToXml(v) ==
    /\ mres.op = "none"
    /\ LET r == ToXml(schema, values, v)
       IN /\ values' = r.values
          /\ elem' = r.elem
          /\ mres' = [mres EXCEPT !.op = "to_xml", !.version = v, !.field = r.field,
                                  !.exc = r.exc]
    /\ UNCHANGED <<schema, parent, fieldsVars, schemaVars, entityVars, hashVars, tzVars>>

\* The caller places the element under a parent.
WAttach(sibs) ==
    /\ mres.op = "to_xml" /\ elem.built
    /\ parent' = sibs
    /\ mres' = [mres EXCEPT !.op = "attach"]
    /\ UNCHANGED <<schema, values, elem, fieldsVars, schemaVars, entityVars, hashVars, tzVars>>

\* entity = cls.from_xml(elem, account): every name of kwargs is a declared field, so
\* the constructor stores each value.
WFromXml ==
    /\ mres.op \in {"to_xml", "attach"} /\ elem.built
    /\ LET r == FromXml(schema, elem, parent)
       IN /\ values' = r.kwargs
          /\ elem' = r.elem
          /\ parent' = r.parent
    /\ mres' = [mres EXCEPT !.op = "from_xml", !.orig = values]
    /\ UNCHANGED <<schema, fieldsVars, schemaVars, entityVars, hashVars, tzVars>>

InitWire ==
    /\ schema \in Schemas
    /\ values \in {vs \in [{schema[i].name : i \in 1..Len(schema)} ->
                             {ValNone, ValText, ValInvalid, ValEmptyList, ValList}] :
                      \A i \in 1..Len(schema) : vs[schema[i].name] \in MarshalValues(schema[i])}
    /\ elem = NoElem
    /\ mres = WireStart
    /\ parent = <<>>
    /\ heap = <<>>
    /\ FieldsUnused
    /\ SchemaUnused
    /\ EntityUnused
    /\ HashUnused
    /\ TzUnused

NextWire ==
    \/ \E v \in Versions : WToXml(v)
    \/ \E sibs \in Siblings : WAttach(sibs)
    \/ WFromXml

SpecWire == InitWire /\ [][NextWire]_vars

(***************************************************************************)
(* SpecHash: entities are built, assigned to, hashed and compared.         *)
(*                                                                         *)
(* Python values are tagged records.  hash() is taken to be free of        *)
(* collisions: the hash of None, a str or an int stands for the value, the *)
(* hash of a tuple is made of the hashes of its items, and a list or a     *)
(* dict has no hash (TypeError).  An entity hashes as its class says.      *)
(***************************************************************************)
PyNone == [t |-> "None"]

PyStr(s) == [t |-> "str", s |-> s]

PyInt(n) == [t |-> "int", n |-> n]

PyList(items) == [t |-> "list", items |-> items]

PyTuple(items) == [t |-> "tuple", items |-> items]

\* A non-empty dict.
PyDict == [t |-> "dict"]

\* datetime.time(h, m, s)
PyTime(h, m, sec) == [t |-> "time", h |-> h, m |-> m, sec |-> sec]

\* An entity of class c whose attributes are vals.
PyObj(c, vals) == [t |-> "obj", cls |-> c, vals |-> vals]

\* bool(v); entity classes define neither __bool__ nor __len__.
PyTruthy(v) ==
    CASE v.t = "None" -> FALSE
      [] v.t = "str" -> v.s # ""
      [] v.t = "int" -> v.n # 0
      [] v.t \in {"list", "tuple"} -> Len(v.items) > 0
      [] OTHER -> TRUE

\* str.lower(), on the strings in use.
Lower(s) == IF s = "A@B" THEN "a@b" ELSE s

\* WEEKDAY_NAMES, and EnumField.as_string: the name at a 1-based index.
WEEKDAY_NAMES == <<"Monday", "Tuesday", "Wednesday", "Thursday", "Friday", "Saturday", "Sunday">>

AsString(n) == WEEKDAY_NAMES[n]

HFld(n, l, e) == [name |-> n, is_list |-> l, is_enum |-> e]

HTypes ==
    {"ItemId", "MessageHeader", "StringAttributedValue", "Mailbox", "Attendee",
     "TimeZoneTransition", "UserConfiguration"}

\* cls.FIELDS of the classes that are hashed, with what __hash__ and _field_vals
\* ask of a field: its name, is_list, and whether it is an EnumField.
HFields(c) ==
    CASE c = "ItemId" -> <<HFld("id", FALSE, FALSE), HFld("changekey", FALSE, FALSE)>>
      [] c = "MessageHeader" -> <<HFld("name", FALSE, FALSE), HFld("value", FALSE, FALSE)>>
      [] c = "StringAttributedValue" ->
            <<HFld("value", FALSE, FALSE), HFld("attributions", TRUE, FALSE)>>
      [] c = "Mailbox" ->
            <<HFld("name", FALSE, FALSE), HFld("email_address", FALSE, FALSE),
              HFld("routing_type", FALSE, FALSE), HFld("mailbox_type", FALSE, FALSE),
              HFld("item_id", FALSE, FALSE)>>
      [] c = "Attendee" ->
            <<HFld("mailbox", FALSE, FALSE), HFld("response_type", FALSE, FALSE),
              HFld("last_response_time", FALSE, FALSE)>>
      [] c \in {"TimeZoneTransition", "StandardTime", "DaylightTime"} ->
            <<HFld("bias", FALSE, FALSE), HFld("time", FALSE, FALSE),
              HFld("occurrence", FALSE, FALSE), HFld("iso_month", FALSE, FALSE),
              HFld("weekday", FALSE, TRUE)>>
      [] c = "TimeZone" ->
            <<HFld("bias", FALSE, FALSE), HFld("standard_time", FALSE, FALSE),
              HFld("daylight_time", FALSE, FALSE)>>
      [] c = "UserConfiguration" ->
            <<HFld("_id", FALSE, FALSE), HFld("user_configuration_name", FALSE, FALSE),
              HFld("dictionary", FALSE, FALSE), HFld("xml_data", FALSE, FALSE),
              HFld("binary_data", FALSE, FALSE)>>

HNames(c) == {HFields(c)[i].name : i \in 1..Len(HFields(c))}

\* The classes that derive from IdChangeKeyMixIn.
HIdentityDelegating == {"UserConfiguration"}

\* The id and changekey properties of IdChangeKeyMixIn, read.
IdOf(e) == IF e.vals["_id"] = PyNone THEN PyNone ELSE e.vals["_id"].vals["id"]

ChangekeyOf(e) == IF e.vals["_id"] = PyNone THEN PyNone ELSE e.vals["_id"].vals["changekey"]

TypeError == [t |-> "TypeError"]

\* hash() of a tuple whose items hash as hs.
TupleHash(hs) ==
    IF \E i \in 1..Len(hs) : hs[i] = TypeError THEN TypeError
    ELSE [t |-> "hash", of |-> [t |-> "tuple", items |-> hs]]

\* tuple(getattr(self, f.name) or ()) if f.is_list else getattr(self, f.name)
Folded(f, val) ==
    IF f.is_list THEN PyTuple(IF PyTruthy(val) THEN val.items ELSE <<>>) ELSE val

\* The tuple EWSElement.__hash__ builds.
HashTuple(e) ==
    PyTuple([i \in 1..Len(HFields(e.cls)) |->
                Folded(HFields(e.cls)[i], e.vals[HFields(e.cls)[i].name])])

\* Mutant: only the first field is hashed.
EWSElementHashFirst(e) == PyTuple(<<HashTuple(e).items[1]>>)

\* EWSElement.__hash__: what is handed to hash().
EWSElementHash(e) == HashTuple(e)

\* Mailbox.__hash__: what is handed to hash().
MailboxHash(e) ==
    IF PyTruthy(e.vals["item_id"]) THEN e.vals["item_id"]
    ELSE IF PyTruthy(e.vals["email_address"])
         THEN PyStr(Lower(e.vals["email_address"].s))
         ELSE EWSElementHash(e)

\* Attendee.__hash__: what is handed to hash().
AttendeeHash(e) == e.vals["mailbox"]

\* Mutant: the changekey is left out of the key.
MixinHashIdOnly(e) ==
    IF PyTruthy(IdOf(e)) THEN PyTuple(<<IdOf(e)>>) ELSE EWSElementHash(e)

\* IdChangeKeyMixIn.__hash__: what is handed to hash().
MixinHash(e) ==
    IF PyTruthy(IdOf(e)) THEN PyTuple(<<IdOf(e), ChangekeyOf(e)>>) ELSE EWSElementHash(e)

\* type(e).__hash__, found along the classes e derives from.
HashArg(e) ==
    CASE e.cls = "Mailbox" -> MailboxHash(e)
      [] e.cls = "Attendee" -> AttendeeHash(e)
      [] e.cls \in HIdentityDelegating -> MixinHash(e)
      [] OTHER -> EWSElementHash(e)

\* hash(v)
RECURSIVE PyHash(_)
PyHash(v) ==
    CASE v.t \in {"None", "str", "int", "time"} -> [t |-> "hash", of |-> v]
      [] v.t \in {"list", "dict"} -> TypeError
      [] v.t = "tuple" -> TupleHash([i \in 1..Len(v.items) |-> PyHash(v.items[i])])
      [] v.t = "obj" -> PyHash(HashArg(v))

\* hash(self) == hash(other), the two hashes being ha and hb.
EqOutcome(ha, hb) ==
    IF ha = TypeError \/ hb = TypeError
    THEN [exc |-> "TypeError", val |-> FALSE, ha |-> ha, hb |-> hb]
    ELSE [exc |-> "none", val |-> (ha = hb), ha |-> ha, hb |-> hb]

\* EWSElement.__eq__, which IdChangeKeyMixIn.__eq__ calls when other is no tuple.
Eq(x, y) == EqOutcome(PyHash(x), PyHash(y))

\* EWSElement._field_vals: the (name, value) pairs, an int in an EnumField as its name.
FieldVals(e) ==
    [i \in 1..Len(HFields(e.cls)) |->
        [name |-> HFields(e.cls)[i].name,
         val |-> IF HFields(e.cls)[i].is_enum /\ e.vals[HFields(e.cls)[i].name].t = "int"
                 THEN PyStr(AsString(e.vals[HFields(e.cls)[i].name].n))
                 ELSE e.vals[HFields(e.cls)[i].name]]]

Texts == {PyNone, PyStr("x"), PyStr("y")}

\* ItemId(id=i, changekey=c)
ItemIdObj(i, c) == PyObj("ItemId", [n \in {"id", "changekey"} |-> IF n = "id" THEN i ELSE c])

\* Mailbox(name=n, email_address=a, mailbox_type=m, item_id=i)
MailboxObj(n, a, m, i) ==
    PyObj("Mailbox",
          [k \in HNames("Mailbox") |->
              CASE k = "name" -> n
                [] k = "email_address" -> a
                [] k = "mailbox_type" -> m
                [] k = "item_id" -> i
                [] OTHER -> PyNone])

\* The values the callers give to the field called n of class c.  The _id of a
\* UserConfiguration is what UserConfiguration(id=i, changekey=c) stores.
HValues(c, n) ==
    CASE c \in {"ItemId", "MessageHeader"} -> Texts
      [] c = "StringAttributedValue" /\ n = "value" -> Texts
      [] c = "StringAttributedValue" /\ n = "attributions" ->
            {PyNone, PyList(<<>>), PyList(<<PyStr("x")>>), PyList(<<PyStr("y")>>)}
      [] c = "Mailbox" /\ n = "name" -> {PyNone, PyStr("x")}
      [] c = "Mailbox" /\ n = "email_address" -> {PyNone, PyStr("a@b"), PyStr("A@B")}
      [] c = "Mailbox" /\ n = "mailbox_type" -> {PyNone, PyStr("Mailbox")}
      [] c = "Mailbox" /\ n = "item_id" -> {PyNone, ItemIdObj(PyStr("x"), PyNone)}
      [] c = "Attendee" /\ n = "mailbox" ->
            {PyNone, MailboxObj(PyNone, PyStr("a@b"), PyNone, PyNone),
             MailboxObj(PyStr("x"), PyStr("a@b"), PyNone, PyNone)}
      [] c = "Attendee" /\ n = "response_type" -> {PyStr("Accept"), PyStr("Decline")}
      [] c = "TimeZoneTransition" /\ n = "bias" -> {PyInt(0)}
      [] c = "TimeZoneTransition" /\ n = "occurrence" -> {PyInt(1)}
      [] c = "TimeZoneTransition" /\ n = "iso_month" -> {PyInt(3)}
      [] c = "TimeZoneTransition" /\ n = "weekday" ->
            {PyInt(1), PyStr("Monday"), PyInt(7), PyStr("Sunday")}
      [] c = "UserConfiguration" /\ n = "_id" ->
            {PyNone, ItemIdObj(PyStr("x"), PyNone), ItemIdObj(PyStr("x"), PyStr("y")),
             ItemIdObj(PyStr("y"), PyStr("y")), ItemIdObj(PyNone, PyStr("y")),
             ItemIdObj(PyStr(""), PyStr("y"))}
      [] c = "UserConfiguration" /\ n = "dictionary" -> {PyNone, PyDict}
      [] c = "UserConfiguration" /\ n = "xml_data" -> {PyNone, PyStr("x")}
      [] OTHER -> {PyNone}

\* The entities of class c the callers build.
HEntities(c) == {PyObj(c, vs) : vs \in {f \in [HNames(c) -> UNION {HValues(c, n) : n \in HNames(c)}] :
                                           \A n \in HNames(c) : f[n] \in HValues(c, n)}}

\* Every entity the callers build.
AllEntities == UNION {HEntities(c) : c \in HTypes}

NoHres == [op |-> "none", k |-> 0, field |-> "", exc |-> "none", val |-> FALSE,
           ha |-> NoVal, hb |-> NoVal]

\* e = cls(**kwargs), every declared field being set
HConstruct(e) ==
    /\ Len(ents) < 2
    /\ ents' = Append(ents, e)
    /\ hres' = [NoHres EXCEPT !.op = "construct", !.k = Len(ents) + 1]
    /\ UNCHANGED <<fieldsVars, schemaVars, entityVars, marshalVars, tzVars>>

\* ents[k].n = val, n a declared field
HSetField(k, n, val) ==
    /\ k \in 1..Len(ents)
    /\ n \in HNames(ents[k].cls)
    /\ val \in HValues(ents[k].cls, n)
    /\ ents' = [ents EXCEPT ![k].vals[n] = val]
    /\ hres' = [NoHres EXCEPT !.op = "set", !.k = k, !.field = n]
    /\ UNCHANGED <<fieldsVars, schemaVars, entityVars, marshalVars, tzVars>>

\* The outcome of hash(e), h being what it computed.
Hashed(k, h) ==
    [NoHres EXCEPT !.op = "hash", !.k = k, !.ha = h,
                   !.exc = IF h = TypeError THEN "TypeError" ELSE "none"]

\* hash(ents[k])
HHash(k) ==
    /\ k \in 1..Len(ents)
    /\ hres' = Hashed(k, PyHash(ents[k]))
    /\ UNCHANGED <<ents, fieldsVars, schemaVars, entityVars, marshalVars, tzVars>>

\* The outcome of a comparison.
Compared(r) ==
    [NoHres EXCEPT !.op = "eq", !.exc = r.exc, !.val = r.val, !.ha = r.ha, !.hb = r.hb]

\* ents[1] == ents[2]
HEq ==
    /\ Len(ents) = 2
    /\ hres' = Compared(Eq(ents[1], ents[2]))
    /\ UNCHANGED <<ents, fieldsVars, schemaVars, entityVars, marshalVars, tzVars>>

\* IdChangeKeyMixIn.__eq__ for a tuple: hash((self.id, self.changekey)) == hash(other)
MixinEqTuple(e, other) ==
    EqOutcome(PyHash(PyTuple(<<IdOf(e), ChangekeyOf(e)>>)), PyHash(other))

\* IdChangeKeyMixIn.__eq__
MixinEq(e, other) == IF other.t = "tuple" THEN MixinEqTuple(e, other) ELSE Eq(e, other)

\* ents[k] == other, ents[k] deriving from IdChangeKeyMixIn and other being a tuple
HEqTuple(k, other) ==
    /\ k \in 1..Len(ents)
    /\ ents[k].cls \in HIdentityDelegating
    /\ hres' = [Compared(MixinEq(ents[k], other)) EXCEPT !.op = "eq_tuple", !.k = k]
    /\ UNCHANGED <<ents, fieldsVars, schemaVars, entityVars, marshalVars, tzVars>>

InitHash ==
    /\ ents = <<>>
    /\ hres = NoHres
    /\ heap = <<>>
    /\ FieldsUnused
    /\ SchemaUnused
    /\ EntityUnused
    /\ MarshalUnused
    /\ TzUnused

NextHash ==
    \/ \E e \in AllEntities : HConstruct(e)
    \/ \E k \in 1..Len(ents) : \E n \in HNames(ents[k].cls) :
          \E val \in HValues(ents[k].cls, n) : HSetField(k, n, val)
    \/ \E k \in 1..Len(ents) : HHash(k)
    \/ HEq
    \/ \E k \in 1..Len(ents) : \E i \in Texts, c \in Texts : HEqTuple(k, PyTuple(<<i, c>>))

SpecHash == InitHash /\ [][NextHash]_vars

(***************************************************************************)
(* SpecTransition: two StandardTime / DaylightTime entities are validated, *)
(* read back from their wire form and compared.                            *)
(***************************************************************************)
TransitionTypes == {"StandardTime", "DaylightTime"}

\* StandardTime / DaylightTime (bias=b, time=00:00, occurrence=o, iso_month=3, weekday=7)
TransitionObj(c, b, o) ==
    PyObj(c, [n \in HNames(c) |->
                CASE n = "bias" -> b
                  [] n = "time" -> PyTime(0, 0, 0)
                  [] n = "occurrence" -> o
                  [] n = "iso_month" -> PyInt(3)
                  [] n = "weekday" -> PyInt(7)])

\* The occurrences a caller or a server gives: the two forms of 'last', two others,
\* and none.
Occurrences5 == {PyInt(0 - 1), PyInt(1), PyInt(4), PyInt(5), PyNone}

Transitions == {TransitionObj(c, b, o) : c \in TransitionTypes, b \in {PyInt(0), PyInt(60)},
                                          o \in Occurrences5}

\* super().clean(version): every field of a transition is required; a value that is
\* present is kept.
RequiredClean(e) ==
    IF \E n \in HNames(e.cls) : e.vals[n] = PyNone
    THEN [exc |-> "ValueError", ent |-> e]
    ELSE [exc |-> "none", ent |-> e]

\* The rest of TimeZoneTransition.clean, r being the outcome of super().clean.
CleanOccurrence(r) ==
    IF r.exc # "none" THEN r
    ELSE IF r.ent.vals["occurrence"] = PyInt(0 - 1)
         THEN [r EXCEPT !.ent.vals["occurrence"] = PyInt(5)]
         ELSE r

\* Mutant: clean validates and leaves the occurrence as it is.
TransitionCleanPlain(e) == RequiredClean(e)

\* TimeZoneTransition.clean
TransitionClean(e) == CleanOccurrence(RequiredClean(e))

\* The text of an int on the wire, and the int of a text.
IntText(n) ==
    CASE n = 0 - 1 -> "-1" [] n = 0 -> "0" [] n = 1 -> "1" [] n = 3 -> "3"
      [] n = 4 -> "4" [] n = 5 -> "5" [] n = 7 -> "7" [] n = 60 -> "60"

ParseInt(s) ==
    CASE s = "-1" -> 0 - 1 [] s = "0" -> 0 [] s = "1" -> 1 [] s = "3" -> 3
      [] s = "4" -> 4 [] s = "5" -> 5 [] s = "7" -> 7 [] s = "60" -> 60

\* The element a server sends for a transition: the text of each field, a field
\* without value being absent.
TransitionWire(e) ==
    [n \in {k \in HNames(e.cls) : e.vals[k] # PyNone} |->
        IF e.vals[n].t = "int" THEN IntText(e.vals[n].n) ELSE "00:00:00"]

\* super().from_xml(elem, account): cls(**kwargs) with what each field reads.
ReadTransition(c, w) ==
    PyObj(c, [n \in HNames(c) |->
                IF n \notin DOMAIN w THEN PyNone
                ELSE IF n = "time" THEN PyTime(0, 0, 0)
                ELSE PyInt(ParseInt(w[n]))])

\* The rest of TimeZoneTransition.from_xml, on what super().from_xml built.
FromXmlOccurrence(built) ==
    IF built.vals["occurrence"] = PyInt(0 - 1)
    THEN [built EXCEPT !.vals["occurrence"] = PyInt(5)]
    ELSE built

\* TimeZoneTransition.from_xml
TransitionFromXml(c, w) == FromXmlOccurrence(ReadTransition(c, w))

NoTres == [op |-> "none", k |-> 0, exc |-> "none", val |-> FALSE]

\* The state clean leaves, r being its outcome: the entity keeps what clean stored.
TrCleaned(k, r) ==
    /\ tzin' = [tzin EXCEPT !.ent[k] = r.ent,
                            !.done = IF r.exc = "none" THEN @ \cup {k} ELSE @]
    /\ tzres' = [NoTres EXCEPT !.op = "clean", !.k = k, !.exc = r.exc]

\* tzin.ent[k].clean()
TrClean(k) ==
    /\ k \notin tzin.done
    /\ TrCleaned(k, TransitionClean(tzin.ent[k]))
    /\ UNCHANGED <<fieldsVars, schemaVars, entityVars, marshalVars, hashVars>>

\* tzin.ent[k] = cls.from_xml(elem), elem being the wire form of the entity
TrFromXml(k) ==
    /\ k \notin tzin.done
    /\ tzin' = [tzin EXCEPT !.ent[k] = TransitionFromXml(@.cls, TransitionWire(@)),
                            !.done = @ \cup {k}]
    /\ tzres' = [NoTres EXCEPT !.op = "from_xml", !.k = k]
    /\ UNCHANGED <<fieldsVars, schemaVars, entityVars, marshalVars, hashVars>>

\* tzin.ent[1] == tzin.ent[2]
TrEq ==
    /\ tzres.op # "eq"
    /\ tzres' = [NoTres EXCEPT !.op = "eq", !.val = Eq(tzin.ent[1], tzin.ent[2]).val]
    /\ UNCHANGED <<tzin, fieldsVars, schemaVars, entityVars, marshalVars, hashVars>>

InitTransition ==
    /\ \E a \in Transitions, b \in Transitions :
          tzin = [ent |-> <<a, b>>, orig |-> <<a, b>>, done |-> {}]
    /\ tzres = NoTres
    /\ heap = <<>>
    /\ FieldsUnused
    /\ SchemaUnused
    /\ EntityUnused
    /\ MarshalUnused
    /\ HashUnused

NextTransition ==
    \/ \E k \in 1..2 : TrClean(k)
    \/ \E k \in 1..2 : TrFromXml(k)
    \/ TrEq

SpecTransition == InitTransition /\ [][NextTransition]_vars

(***************************************************************************)
(* SpecDerive: TimeZone.from_server_timezone on the tables of one server   *)
(* timezone.                                                               *)
(*                                                                         *)
(* periods maps (year, type) to a period with a name and a bias, a         *)
(* timedelta held in seconds; transitions maps a transition group id to    *)
(* its from_date, held as a year, 0 being None; transitionsgroups maps a   *)
(* group id to its transitions: {'to': key} alone, or a rule with offset   *)
(* (seconds), occurrence, iso_month and iso_weekday.                       *)
(***************************************************************************)
PKey(y, ty) == [year |-> y, type |-> ty]

\* (year, type) tuples as sorted() orders them.
KeyBefore(a, b) ==
    \/ a.year < b.year
    \/ a.year = b.year /\ (a.type = b.type \/ (a.type = "Daylight" /\ b.type = "Standard"))

\* The keys of sorted(periods.items())
RECURSIVE SortedKeys(_)
SortedKeys(S) ==
    IF S = {} THEN <<>>
    ELSE <<CHOOSE x \in S : \A y \in S : KeyBefore(x, y)>>
            \o SortedKeys(S \ {CHOOSE x \in S : \A y \in S : KeyBefore(x, y)})

\* The keys of sorted(transitions.items()): the group ids in ascending order
RECURSIVE SortedIds(_)
SortedIds(S) ==
    IF S = {} THEN <<>>
    ELSE <<CHOOSE x \in S : \A y \in S : x <= y>>
            \o SortedIds(S \ {CHOOSE x \in S : \A y \in S : x <= y})

\* int(td.total_seconds()) // 60
Minutes(secs) == secs \div 60

TzOk(v) == [exc |-> "none", why |-> "", val |-> v]

TzRaise(w) == [exc |-> "ValueError", why |-> w, val |-> NoVal]

\* The loop of _get_bias from position i on, valid being valid_period so far (a set,
\* empty for None).
RECURSIVE BiasLoop(_, _, _, _, _)
BiasLoop(keys, periods, for_year, i, valid) ==
    IF i > Len(keys) THEN valid
    ELSE IF keys[i].type # "Standard" THEN BiasLoop(keys, periods, for_year, i + 1, valid)
    ELSE IF keys[i].year > for_year THEN valid
    ELSE BiasLoop(keys, periods, for_year, i + 1, {periods[keys[i]]})

\* The end of _get_bias.
BiasOf(valid) ==
    IF valid = {} THEN TzRaise("NoStandardBias")
    ELSE TzOk(Minutes((CHOOSE p \in valid : TRUE).bias))

\* TimeZone._get_bias
GetBias(periods, for_year) ==
    BiasOf(BiasLoop(SortedKeys(DOMAIN periods), periods, for_year, 1, {}))

\* The loop of _get_valid_transition_id from position i on, valid being
\* valid_tg_id so far (0 for None).
RECURSIVE TransitionLoop(_, _, _, _, _)
TransitionLoop(ids, transitions, for_year, i, valid) ==
    IF i > Len(ids) THEN valid
    ELSE IF transitions[ids[i]] # 0 /\ transitions[ids[i]] > for_year THEN valid
    ELSE TransitionLoop(ids, transitions, for_year, i + 1, ids[i])

\* The end of _get_valid_transition_id.
TransitionIdOf(valid) == IF valid = 0 THEN TzRaise("NoValidTransition") ELSE TzOk(valid)

\* TimeZone._get_valid_transition_id
GetValidTransitionId(transitions, for_year) ==
    TransitionIdOf(TransitionLoop(SortedIds(DOMAIN transitions), transitions, for_year, 1, 0))

\* (datetime.datetime(2000, 1, 1) + offset).time(), for 0 <= offset < one day
TimeOfDay(secs) == PyTime(secs \div 3600, (secs % 3600) \div 60, secs % 60)

\* StandardTime / DaylightTime (bias=b, time=t, occurrence=o, iso_month=mo, weekday=w)
TransitionTime(c, b, t, o, mo, w) ==
    PyObj(c, [n \in HNames(c) |->
                CASE n = "bias" -> PyInt(b)
                  [] n = "time" -> t
                  [] n = "occurrence" -> PyInt(o)
                  [] n = "iso_month" -> PyInt(mo)
                  [] n = "weekday" -> PyInt(w)])

\* The two objects made for a transition that holds 'to' only.
DummyStandard == TransitionTime("StandardTime", 0, PyTime(0, 0, 0), 1, 1, 1)

DummyDaylight == TransitionTime("DaylightTime", 0, PyTime(0, 0, 0), 5, 12, 7)

SecondsPerDay == 86400

\* Mutant: the DaylightTime keeps the period's absolute bias.
StdDstStepAbsolute(acc, tr, period, bias) ==
    IF tr.len = 1 THEN [acc EXCEPT !.std = DummyStandard, !.dst = DummyDaylight]
    ELSE IF ~(0 <= tr.offset /\ tr.offset < SecondsPerDay)
         THEN [acc EXCEPT !.exc = "ValueError", !.why = "InvalidOffset"]
    ELSE IF period.name = "Standard"
         THEN [acc EXCEPT !.std = TransitionTime("StandardTime", 0, TimeOfDay(tr.offset),
                                                 tr.occurrence, tr.iso_month, tr.iso_weekday)]
    ELSE IF period.name = "Daylight"
         THEN [acc EXCEPT !.dst = TransitionTime("DaylightTime", Minutes(period.bias),
                                                 TimeOfDay(tr.offset), tr.occurrence,
                                                 tr.iso_month, tr.iso_weekday)]
    ELSE [acc EXCEPT !.exc = "ValueError", !.why = "UnknownTransition"]

\* One pass of the loop of _get_std_and_dst: acc holds standard_time and
\* daylight_time so far, tr is the transition and period is periods[tr['to']].
StdDstStep(acc, tr, period, bias) ==
    IF tr.len = 1 THEN [acc EXCEPT !.std = DummyStandard, !.dst = DummyDaylight]
    ELSE IF ~(0 <= tr.offset /\ tr.offset < SecondsPerDay)
         THEN [acc EXCEPT !.exc = "ValueError", !.why = "InvalidOffset"]
    ELSE IF period.name = "Standard"
         THEN [acc EXCEPT !.std = TransitionTime("StandardTime", 0, TimeOfDay(tr.offset),
                                                 tr.occurrence, tr.iso_month, tr.iso_weekday)]
    ELSE IF period.name = "Daylight"
         THEN [acc EXCEPT !.dst = TransitionTime("DaylightTime", Minutes(period.bias) - bias,
                                                 TimeOfDay(tr.offset), tr.occurrence,
                                                 tr.iso_month, tr.iso_weekday)]
    ELSE [acc EXCEPT !.exc = "ValueError", !.why = "UnknownTransition"]

RECURSIVE StdDstLoop(_, _, _, _, _)
\* The loop of _get_std_and_dst from position i on.
StdDstLoop(group, periods, bias, i, acc) ==
    IF i > Len(group) \/ acc.exc # "none" THEN acc
    ELSE StdDstLoop(group, periods, bias, i + 1,
                    StdDstStep(acc, group[i], periods[group[i].to], bias))

\* TimeZone._get_std_and_dst
GetStdAndDst(group, periods, bias) ==
    StdDstLoop(group, periods, bias, 1,
               [exc |-> "none", why |-> "", std |-> PyNone, dst |-> PyNone])

\* TimeZone(bias=b, standard_time=std, daylight_time=dst)
TimeZoneObj(b, std, dst) ==
    PyObj("TimeZone", [n \in HNames("TimeZone") |->
                          CASE n = "bias" -> PyInt(b)
                            [] n = "standard_time" -> std
                            [] n = "daylight_time" -> dst])

\* The outcome of from_server_timezone: the exception, or the TimeZone with the
\* bias and the group id it was made from.
Derived(exc, why, bias, tg, tz) ==
    [exc |-> exc, why |-> why, bias |-> bias, tg |-> tg, tz |-> tz]

\* from_server_timezone once both times are made, sd being what _get_std_and_dst
\* returned.
DeriveEnd(bias, tg, sd) ==
    IF sd.exc # "none" THEN Derived(sd.exc, sd.why, bias, tg, PyNone)
    ELSE Derived("none", "", bias, tg, TimeZoneObj(bias, sd.std, sd.dst))

\* from_server_timezone once the group id is known.
DeriveGroup(periods, groups, bias, tg) ==
    IF Len(groups[tg]) > 2 THEN Derived("ValueError", "TooManyTransitions", bias, tg, PyNone)
    ELSE DeriveEnd(bias, tg, GetStdAndDst(groups[tg], periods, bias))

\* from_server_timezone once the bias is known, t being what
\* _get_valid_transition_id returned.
DeriveTransitions(periods, groups, bias, t) ==
    IF t.exc # "none" THEN Derived(t.exc, t.why, bias, 0, PyNone)
    ELSE DeriveGroup(periods, groups, bias, t.val)

\* from_server_timezone, b being what _get_bias returned.
DeriveBias(periods, transitions, groups, for_year, b) ==
    IF b.exc # "none" THEN Derived(b.exc, b.why, 0, 0, PyNone)
    ELSE DeriveTransitions(periods, groups, b.val,
                           GetValidTransitionId(transitions, for_year))

\* TimeZone.from_server_timezone
FromServerTimezone(periods, transitions, groups, for_year) ==
    DeriveBias(periods, transitions, groups, for_year, GetBias(periods, for_year))

MaxYear == 3

\* The years of the periods, of the from_dates and of the target.
Years == 1..MaxYear

\* The bias of the period of a year and type, in seconds.
PeriodBias(y, ty) ==
    IF ty = "Daylight" THEN 10800
    ELSE CASE y = 1 -> 0 - 90 [] y = 2 -> 3600 [] OTHER -> 7230

\* The periods tables: Standard periods for some years, and at most one Daylight
\* period.
PeriodTables ==
    {[k \in {PKey(y, "Standard") : y \in S} \cup {PKey(y, "Daylight") : y \in D} |->
        [name |-> k.type, bias |-> PeriodBias(k.year, k.type)]] :
            S \in SUBSET Years, D \in {{}} \cup {{y} : y \in Years}}

GroupIds == 1..2

\* The transitions tables: a from_date, or None, for some of the group ids.
TransitionTables == UNION {[G -> {0} \cup Years] : G \in SUBSET GroupIds}

\* A transition that holds 'to' only, and a rule.
Simple(k) == [len |-> 1, to |-> k]

Rule(k, offset, occ) ==
    [len |-> 5, to |-> k, offset |-> offset, occurrence |-> occ, iso_month |-> 3,
     iso_weekday |-> 7]

\* A key of periods of the given type, the earliest, for a transition to point at.
KeyOf(periods, ty) ==
    IF \E k \in DOMAIN periods : k.type = ty
    THEN CHOOSE k \in DOMAIN periods :
            k.type = ty /\ \A j \in DOMAIN periods : j.type = ty => k.year <= j.year
    ELSE PKey(0, ty)

\* The transition groups a server sends, over the keys s and d of a Standard and a
\* Daylight period.
GroupsOver(s, d) ==
    {<<>>,
     <<Simple(s)>>,
     <<Rule(s, 7200, 1)>>,
     <<Rule(s, 10800, 1), Rule(d, 7261, 0 - 1)>>,
     <<Rule(d, 7200, 5), Simple(s)>>,
     <<Rule(s, 0 - 1, 1)>>,
     <<Rule(s, 7200, 1), Rule(d, 86400, 1)>>,
     <<Simple(s), Simple(s), Simple(s)>>}

\* Every key a transition of the groups points at is a key of periods.
GroupsResolve(periods, groups) ==
    \A g \in DOMAIN groups : \A i \in 1..Len(groups[g]) : groups[g][i].to \in DOMAIN periods

\* The transitionsgroups tables for a periods table: one group per group id.
GroupTables(periods) ==
    {gs \in [GroupIds -> GroupsOver(KeyOf(periods, "Standard"), KeyOf(periods, "Daylight"))] :
        GroupsResolve(periods, gs) /\ Len(gs[2]) <= 1}

NoDerived == [op |-> "none", out |-> NoVal]

\* tz = TimeZone.from_server_timezone(periods, transitions, transitionsgroups, for_year)
DDerive ==
    /\ tzres.op = "none"
    /\ tzres' = [op |-> "derive",
                 out |-> FromServerTimezone(tzin.periods, tzin.transitions, tzin.groups,
                                            tzin.for_year)]
    /\ UNCHANGED <<tzin, fieldsVars, schemaVars, entityVars, marshalVars, hashVars>>

InitDerive ==
    /\ \E p \in PeriodTables, t \in TransitionTables, y \in Years :
          \E g \in GroupTables(p) :
              tzin = [periods |-> p, transitions |-> t, groups |-> g, for_year |-> y]
    /\ tzres = NoDerived
    /\ heap = <<>>
    /\ FieldsUnused
    /\ SchemaUnused
    /\ EntityUnused
    /\ MarshalUnused
    /\ HashUnused

NextDerive == DDerive

SpecDerive == InitDerive /\ [][NextDerive]_vars

(***************************************************************************)
(* SpecMatch: TimeZone.to_server_timezone on a catalog of server           *)
(* timezones.  A catalog entry holds the tables of one server timezone;    *)
(* its tz_id is its position in the catalog.                               *)
(***************************************************************************)
\* The bias of a StandardTime or DaylightTime.
BiasOfTime(t) == t.vals["bias"]

\* The presence-and-bias test that to_server_timezone makes on standard_time and
\* again on daylight_time: ct is the candidate's, st is self's.
TimeMatches(ct, st) ==
    IF ct = PyNone THEN st = PyNone
    ELSE st # PyNone /\ BiasOfTime(ct) = BiasOfTime(st)

\* Mutant: the base bias alone makes a candidate.
QualifiesBaseBias(candidate, self) == candidate.vals["bias"] = self.vals["bias"]

\* The candidate passes the three tests that precede candidates.add(tz_id).
Qualifies(candidate, self) ==
    /\ candidate.vals["bias"] = self.vals["bias"]
    /\ TimeMatches(candidate.vals["standard_time"], self.vals["standard_time"])
    /\ TimeMatches(candidate.vals["daylight_time"], self.vals["daylight_time"])

\* The outcomes of to_server_timezone.
Matched(id) == [exc |-> "none", why |-> "", id |-> id]

MatchRaise(w) == [exc |-> "ValueError", why |-> w, id |-> 0]

\* to_server_timezone after the loop: candidates.pop() returns any one member.
MatchEnd(candidates) ==
    IF candidates = {} THEN {MatchRaise("NoMatchingTimezone")}
    ELSE {Matched(id) : id \in candidates}

RECURSIVE MatchLoop(_, _, _, _, _)
\* Mutant: an exact match is one more candidate.
MatchStepNoExact(self, timezones, for_year, i, candidates, d) ==
    IF d.exc # "none" THEN {MatchRaise(d.why)}
    ELSE MatchLoop(self, timezones, for_year, i + 1,
                   IF Qualifies(d.tz, self) THEN candidates \cup {i} ELSE candidates)

\* One pass of the loop of to_server_timezone, d being what from_server_timezone
\* returned for entry i: an exception of the derivation leaves to_server_timezone.
MatchStep(self, timezones, for_year, i, candidates, d) ==
    IF d.exc # "none" THEN {MatchRaise(d.why)}
    ELSE IF Eq(d.tz, self).val THEN {Matched(i)}
    ELSE MatchLoop(self, timezones, for_year, i + 1,
                   IF Qualifies(d.tz, self) THEN candidates \cup {i} ELSE candidates)

\* The loop of to_server_timezone from entry i on.
MatchLoop(self, timezones, for_year, i, candidates) ==
    IF i > Len(timezones) THEN MatchEnd(candidates)
    ELSE MatchStep(self, timezones, for_year, i, candidates,
                   FromServerTimezone(timezones[i].periods, timezones[i].transitions,
                                      timezones[i].groups, for_year))

\* TimeZone.to_server_timezone: the set of its possible outcomes.
ToServerTimezone(self, timezones, for_year) == MatchLoop(self, timezones, for_year, 1, {})

\* The tables of a server timezone with Standard periods for the years of S, a
\* Daylight period for the years of D, transition group 1 dated t (or no group when
\* t is below zero) and the transitions g in it.
Periods(S, D) ==
    [k \in {PKey(y, "Standard") : y \in S} \cup {PKey(y, "Daylight") : y \in D} |->
        [name |-> k.type, bias |-> PeriodBias(k.year, k.type)]]

Zone(S, D, t, g) ==
    [periods |-> Periods(S, D),
     transitions |-> IF t < 0 THEN <<>> ELSE <<t>>,
     groups |-> <<g>>]

S2 == PKey(2, "Standard")

D2 == PKey(2, "Daylight")

\* The server timezones of the catalogs.
ServerZones ==
    {Zone({2}, {}, 0, <<Simple(S2)>>),
     Zone({2}, {}, 0, <<>>),
     Zone({2}, {2}, 0, <<Rule(S2, 10800, 1), Rule(D2, 7261, 0 - 1)>>),
     Zone({2}, {2}, 0, <<Rule(S2, 7200, 1), Rule(D2, 7200, 5)>>),
     Zone({1}, {}, 0, <<Simple(PKey(1, "Standard"))>>),
     Zone({MaxYear}, {}, 0, <<Simple(PKey(MaxYear, "Standard"))>>),
     Zone({2}, {}, 0 - 1, <<Simple(S2)>>),
     Zone({2}, {}, 0, <<Rule(S2, 0 - 1, 1)>>),
     Zone({2}, {}, 0, <<Simple(S2), Simple(S2), Simple(S2)>>)}

MaxCatalog == 3

\* The catalogs: up to MaxCatalog server timezones in some order.
Catalogs == UNION {[1..n -> ServerZones] : n \in 1..MaxCatalog}

\* The local timezones: what some server timezone derives to for some year.
LocalZones ==
    {d.tz : d \in {e \in {FromServerTimezone(z.periods, z.transitions, z.groups, y) :
                            z \in ServerZones, y \in Years} : e.exc = "none"}}

NoMatch == [op |-> "none", out |-> NoVal]

\* tz_id = self.to_server_timezone(timezones, for_year)
MMatch ==
    /\ tzres.op = "none"
    /\ \E r \in ToServerTimezone(tzin.self, tzin.timezones, tzin.for_year) :
          tzres' = [op |-> "match", out |-> r]
    /\ UNCHANGED <<tzin, fieldsVars, schemaVars, entityVars, marshalVars, hashVars>>

InitMatch ==
    /\ \E s \in LocalZones, c \in Catalogs, y \in Years :
          tzin = [self |-> s, timezones |-> c, for_year |-> y]
    /\ tzres = NoMatch
    /\ heap = <<>>
    /\ FieldsUnused
    /\ SchemaUnused
    /\ EntityUnused
    /\ MarshalUnused
    /\ HashUnused

NextMatch == MMatch

SpecMatch == InitMatch /\ [][NextMatch]_vars

(***************************************************************************)
(* Properties of the schema container.                                     *)
(***************************************************************************)
NamesOf(s) == {s[i].name : i \in 1..Len(s)}

ElemsOf(s) == {s[i] : i \in 1..Len(s)}

NoDupNames(s) == \A i, j \in 1..Len(s) : i # j => s[i].name # s[j].name

\* The name index covers exactly the names of the sequence and maps each name to
\* the field stored in the sequence under it.
Consistent(c) ==
    /\ DOMAIN c.dict = NamesOf(c.list)
    /\ \A i \in 1..Len(c.list) : c.dict[c.list[i].name] = c.list[i]

WellFormed(c) == c.kind = "Fields" /\ Consistent(c)

PosIn(s, f) == CHOOSE i \in 1..Len(s) : s[i] = f

\* o holds elements of s, in the relative order they have in s.
InOrderOf(o, s) ==
    /\ ElemsOf(o) \subseteq ElemsOf(s)
    /\ \A i, j \in 1..Len(o) : i < j => PosIn(s, o[i]) < PosIn(s, o[j])

Reverse(s) == [i \in 1..Len(s) |-> s[Len(s) + 1 - i]]

\* The 0-based positions a slice selects.
SelectedIdx(n, start, stop, step) ==
    LET st == SliceStep(step)
        lo == SliceClamp(start, n, st, IF st < 0 THEN n - 1 ELSE 0)
        hi == SliceClamp(stop, n, st, IF st < 0 THEN 0 - 1 ELSE n)
    IN IF st > 0
       THEN {i \in 0..(n - 1) : i >= lo /\ i < hi /\ (i - lo) % st = 0}
       ELSE {i \in 0..(n - 1) : i <= lo /\ i > hi /\ (lo - i) % (0 - st) = 0}

\* C4: in every container reachable by construction, insert, remove, concatenation,
\* copy and slicing no two fields share a name; constructing from a sequence with a
\* repeated name, inserting a field whose name is present and concatenating two
\* containers that share a name raise ValueError and produce no container.
C4_UniqueNames ==
    /\ [](\A r \in Refs : NoDupNames(heap[r].list))
    /\ [](res.op = "init" /\ ~NoDupNames(res.args.fs) => res.exc = "ValueError" /\ res.out = 0)
    /\ [](res.op = "add" /\ NamesOf(heap[res.a].list) \cap NamesOf(heap[res.b].list) # {}
            => res.exc = "ValueError" /\ res.out = 0)
    /\ [][res'.op = "insert" /\ res'.args.field.name \in NamesOf(heap[res'.a].list)
            => res'.exc = "ValueError" /\ heap' = heap]_vars

C4_Witness ==
    /\ res.op = "insert" /\ res.exc = "ValueError"
    /\ res.args.field \notin ElemsOf(heap[res.a].list)
    /\ Len(heap) = 2

\* C5: after any sequence of insert and remove calls, failing ones included, the name
\* index and the sequence of every container agree (same names, the index maps a name
\* to the very field of the sequence); remove of a field that is not in the container
\* raises and changes neither.
C5_IndexConsistent ==
    /\ [](\A r \in Refs : Consistent(heap[r]))
    /\ [][res'.op = "remove" /\ res'.args.field \notin ElemsOf(heap[res'.a].list)
            => res'.exc = "ValueError" /\ heap' = heap]_vars

C5_Witness ==
    /\ res.op = "remove" /\ res.exc = "none"
    /\ Len(heap[res.a].list) = 1
    /\ \E f \in EditObjs : f \notin ElemsOf(heap[res.a].list) /\ f.name \in DOMAIN heap[res.a].dict

\* C7: a container returned by copy() shares no mutable state with the original:
\* insert and remove calls on the copy leave the original unchanged, and calls on the
\* original leave the copy unchanged.
C7_CopyIndependent ==
    [][\A p \in copies :
          /\ res'.op \in {"insert", "remove"} /\ res'.a = p[2] => heap'[p[1]] = heap[p[1]]
          /\ res'.op \in {"insert", "remove"} /\ res'.a = p[1] => heap'[p[2]] = heap[p[2]]]_vars

C7_Witness ==
    \E p \in copies :
        /\ heap[p[1]] # heap[p[2]]
        /\ res.op = "insert" /\ res.exc = "none" /\ res.a = p[2]

\* C6 (as amended): copy() yields the same fields in the same order; a + b, when it
\* yields a container, yields the fields of a followed by those of b; a slice with a
\* positive step yields exactly the selected fields in their original relative order
\* and a slice with a negative step yields them in reverse order; each result is a
\* Fields container whose name index covers exactly its fields.
C6_OrderPreserved ==
    /\ res.op = "copy" =>
          /\ res.exc = "none"
          /\ heap[res.out].list = heap[res.a].list
          /\ WellFormed(heap[res.out])
    /\ res.op = "add" =>
          /\ res.exc = "none" <=>
                NamesOf(heap[res.a].list) \cap NamesOf(heap[res.b].list) = {}
          /\ res.exc = "none" =>
                /\ heap[res.out].list = heap[res.a].list \o heap[res.b].list
                /\ WellFormed(heap[res.out])
    /\ res.op = "slice" /\ SliceStep(res.args.step) # 0 =>
          /\ res.exc = "none"
          /\ WellFormed(heap[res.out])
          /\ ElemsOf(heap[res.out].list) =
                {heap[res.a].list[i + 1] :
                    i \in SelectedIdx(Len(heap[res.a].list), res.args.start, res.args.stop,
                                      res.args.step)}
          /\ Len(heap[res.out].list) = Cardinality(ElemsOf(heap[res.out].list))
          /\ SliceStep(res.args.step) > 0 => InOrderOf(heap[res.out].list, heap[res.a].list)
          /\ SliceStep(res.args.step) < 0 =>
                InOrderOf(Reverse(heap[res.out].list), heap[res.a].list)

C6_Witness ==
    /\ res.op = "slice" /\ res.exc = "none"
    /\ res.args.step = Some(2)
    /\ Len(heap[res.out].list) = 2

\* C6 as stated: any slice yields the selected fields in their original relative order.
C6_AnySliceInOrder ==
    res.op = "slice" /\ res.exc = "none" => InOrderOf(heap[res.out].list, heap[res.a].list)

(***************************************************************************)
(* Properties of dynamic schema extension.                                 *)
(***************************************************************************)
\* What cls.FIELDS shows for type c: its sequence and its name index.
SchemaOf(c) == [list |-> heap[Resolve(c)].list, dict |-> heap[Resolve(c)].dict]

\* The sequence type c was defined with.
DefinedList(c) == InitHeap[ResolveIn(InitOwn, c)].list

Occurrences(s, f) == Cardinality({i \in 1..Len(s) : s[i] = f})

\* C1: a thread that reads a type's schema without the lock, while another thread
\* runs add_field or remove_field on it, never sees the sequence and the name index
\* disagree (a field in one and not in the other).
C1_ReaderSeesWhole == observed # NoVal => observed.agree

\* C2: add_field and remove_field on type T leave the schema (sequence and name
\* index) of every ancestor of T and of every type that is not T or a descendant of T
\* unchanged, also when T shared its parent's Fields object before the call: a schema
\* changes only in a step of a call that runs on the type itself or on its ancestor.
C2_OthersUnchanged ==
    [][\A c \in Types :
          SchemaOf(c)' # SchemaOf(c) =>
              \E t \in Mutators :
                  /\ pc[t] # "idle"
                  /\ c \in SelfAndDescendants(call[t].cls)]_vars

C2_Witness ==
    \E t \in Mutators :
        /\ pc[t] = "idle"
        /\ call[t].op = "add_field" /\ call[t].cls = "DLMailbox" /\ call[t].exc = "none"
        /\ ncalls[1] + ncalls[2] = 1
        /\ SchemaOf("Mailbox").list = MailboxFields
        /\ SchemaOf("DLMailbox").list # MailboxFields

\* Both threads have made exactly one call, add_field, with a field name that is new
\* to the type and an anchor the type has, and the two names differ.
TwoAddsDone ==
    /\ \A t \in Mutators :
          /\ pc[t] = "idle" /\ ncalls[t] = 1
          /\ call[t].op = "add_field"
          /\ call[t].after \in NamesOf(DefinedList(call[t].cls))
          /\ call[t].field.name \notin NamesOf(DefinedList(call[t].cls))
    /\ call[1].field.name # call[2].field.name

\* C3: when two threads concurrently call add_field (on the same type or on two
\* types) with distinct new names and valid anchors, every interleaving ends with
\* both calls succeeded and each field present exactly once in the schema of the
\* type it was added to, and no schema with a repeated name.
C3_NoLostUpdate ==
    TwoAddsDone =>
        /\ \A t \in Mutators :
              /\ call[t].exc = "none"
              /\ Occurrences(SchemaOf(call[t].cls).list, call[t].field) = 1
              /\ call[t].field.name \in DOMAIN SchemaOf(call[t].cls).dict
              /\ SchemaOf(call[t].cls).dict[call[t].field.name] = call[t].field
        /\ \A c \in Types : NoDupNames(SchemaOf(c).list)

C3_Witness ==
    /\ TwoAddsDone
    /\ call[1].cls = "Mailbox" /\ call[2].cls = "Mailbox"
    /\ Len(SchemaOf("Mailbox").list) = 4

(***************************************************************************)
(* Properties of the entity engine.                                        *)
(***************************************************************************)
\* The types whose identity is delegated to a nested ItemId.
IdentityDelegating(c) == c = "UserConfiguration"

\* The names a constructor accepts besides the declared fields.
AllowList(c) == IF IdentityDelegating(c) THEN {"id", "changekey"} ELSE {}

\* C8: a constructor call with at least one name that is neither a declared field
\* nor in the type's allow-list (id and changekey for identity-delegating types)
\* fails with AttributeError and the error lists exactly those names; a call with
\* declared names only succeeds, and every declared field left out reads None.
C8_ConstructorNames ==
    eres.op = "init" =>
        LET declared == Range(EFields(eres.type))
            offending == eres.keys \ (declared \cup AllowList(eres.type))
        IN /\ offending # {} => eres.exc = "AttributeError" /\ eres.names = offending
           /\ eres.keys \subseteq declared =>
                 /\ eres.exc = "none"
                 /\ etype = eres.type
                 /\ \A n \in declared \ eres.keys :
                       n \in DOMAIN attrs /\ attrs[n] = ValNone

C8_Witness ==
    /\ eres.op = "init"
    /\ eres.type = "UserConfiguration"
    /\ eres.keys = {"id", "typo"}
    /\ eres.exc = "AttributeError"
    /\ eres.names = {"typo"}

\* The slots of a type and of its ancestors.
SlotsOf(c) == UNION {Range(OwnSlots(a)) : a \in Range(Mro(c))}

\* The names an assignment may store under: the declared fields, the slots and the
\* computed properties.
Assignable(c) == Range(EFields(c)) \cup SlotsOf(c) \cup Props(c)

\* C9: every name an entity stores a value under is a declared field, a slot of the
\* type or of an ancestor, or a computed property; an assignment to any other name
\* raises AttributeError and leaves every stored value as it was.
C9_AttributeGuard ==
    /\ [](etype # "none" => DOMAIN attrs \subseteq Assignable(etype))
    /\ [][(eres'.op = "setattr" /\ eres'.key \notin Assignable(etype))
             => (eres'.exc = "AttributeError" /\ attrs' = attrs)]_vars

C9_Witness ==
    /\ etype = "PersonaPostalAddressTypeValue"
    /\ eres.op = "setattr" /\ eres.key = "typo" /\ eres.exc = "AttributeError"
    /\ DOMAIN attrs = {"street", "city", "name"}
    /\ attrs["name"] = ValText /\ attrs["street"] = ValText

\* C10: to_xml for version v writes nothing for a field that does not support v,
\* attribute or child element, whatever its value; clean and to_xml for v do not
\* validate such a field and leave its value as it was.
C10_UnsupportedFieldsSkipped ==
    /\ [](mres.op = "to_xml" /\ mres.exc = "none" =>
             \A i \in 1..Len(schema) :
                 ~SupportsVersion(schema[i], mres.version) =>
                     /\ schema[i].name \notin Range(elem.attrs)
                     /\ schema[i].name \notin Range(elem.children))
    /\ [](mres.op \in {"clean", "to_xml"} /\ mres.exc # "none" =>
             \E i \in 1..Len(schema) :
                 schema[i].name = mres.field /\ SupportsVersion(schema[i], mres.version))
    /\ [][mres'.op \in {"clean", "to_xml"} =>
             \A i \in 1..Len(schema) :
                 ~SupportsVersion(schema[i], mres'.version) =>
                     values'[schema[i].name] = values[schema[i].name]]_vars

\* A value that is neither None nor an empty list.
HasContent(val) == val # ValNone /\ val # ValEmptyList

\* Field i of the schema is one to_xml has to write: not read-only, with content.
Written(i) == ~schema[i].is_read_only /\ HasContent(values[schema[i].name])

\* The position of the field called n in the schema.
SchemaPos(n) == CHOOSE i \in 1..Len(schema) : schema[i].name = n

\* The children follow the declaration order, the log holds one set per attribute
\* and one append per child, and every set comes before every append.
EmissionOrdered ==
    /\ \A j, k \in 1..Len(elem.children) :
          j < k => SchemaPos(elem.children[j]) < SchemaPos(elem.children[k])
    /\ Len(elem.log) = Len(elem.attrs) + Len(elem.children)
    /\ \A j \in 1..Len(elem.attrs) :
          elem.log[j] = [op |-> "set", name |-> elem.attrs[j]]
    /\ \A j \in 1..Len(elem.children) :
          elem.log[Len(elem.attrs) + j] = [op |-> "append", name |-> elem.children[j]]

Violating(v) ==
    {i \in 1..Len(schema) :
        SupportsVersion(schema[i], v) /\ FieldClean(schema[i], values[schema[i].name]).exc # "none"}

\* The first of them in declaration order.
FirstViolating(v) == CHOOSE i \in Violating(v) : \A j \in Violating(v) : i <= j

\* C12: whenever a field that the version supports violates a validation rule,
\* to_xml raises the error of the first such field in declaration order, and no
\* element has been built or returned; an element is built only after validation
\* has passed for every field.
C12_NoPartialEmission ==
    [][mres'.op = "to_xml" =>
          IF Violating(mres'.version) # {}
          THEN /\ mres'.field = schema[FirstViolating(mres'.version)].name
               /\ mres'.exc = FieldClean(schema[FirstViolating(mres'.version)],
                                         values[mres'.field]).exc
               /\ elem' = NoElem
          ELSE mres'.exc = "none" /\ elem'.built]_vars

C12_Witness ==
    /\ mres.op = "to_xml"
    /\ mres.exc = "OutOfRange" /\ mres.field = "b"
    /\ values["a"] = ValText /\ ~schema[1].is_read_only /\ schema[1].is_attribute
    /\ SupportsVersion(schema[1], mres.version)
    /\ elem = NoElem

(***************************************************************************)
(* Properties of from_xml and of the round trip (SpecWire).                *)
(***************************************************************************)
\* What a value reads back as: an empty list leaves nothing on the wire.
ReadBack(val) == IF val = ValEmptyList THEN ValNone ELSE val

Siblings1(p) == [j \in 1..(Len(p) - 1) |->
                    IF j < (CHOOSE k \in 1..Len(p) : p[k] = "self") THEN p[j] ELSE p[j + 1]]

\* C14: from_xml gives every declared field the value read from the element as it
\* was before the call; after the call the element has no attribute, child or
\* content and is no child of its parent, whose other children are as they were.
C14_ReleaseAfterExtract ==
    [][mres'.op = "from_xml" =>
        /\ DOMAIN values' = {schema[i].name : i \in 1..Len(schema)}
        /\ \A i \in 1..Len(schema) : values'[schema[i].name] = FieldFromXml(schema[i], elem)
        /\ elem'.attrs = <<>> /\ elem'.children = <<>> /\ elem'.content = EmptyDict
        /\ "self" \notin Range(parent')
        /\ parent' = IF "self" \in Range(parent) THEN Siblings1(parent) ELSE parent]_vars

\* from_xml has read a value from an element that stood between two siblings.
C14_Witness ==
    /\ mres.op = "from_xml"
    /\ parent = <<"prev", "next">>
    /\ elem.built /\ elem.attrs = <<>> /\ elem.children = <<>>
    /\ values["a"] = ValText /\ values["b"] = ValList

(***************************************************************************)
(* Properties of equality and hashing (SpecHash).                          *)
(***************************************************************************)
\* The last call compared two entities.
Comparing == hres.op = "eq" /\ Len(ents) = 2

\* The names of the fields in which two entities of one class differ.
DifferIn(x, y) == {n \in HNames(x.cls) : x.vals[n] # y.vals[n]}

\* C15: two entities built from the same mapping compare equal with equal hashes,
\* comparison and hashing both succeeding.
C15_SameValuesEqual ==
    Comparing /\ ents[1] = ents[2] =>
        /\ hres.exc = "none"
        /\ hres.val
        /\ hres.ha # TypeError /\ hres.ha = hres.hb

\* The class of e keeps the hash of EWSElement and e has no id that replaces it.
StructurallyHashed(e) ==
    /\ e.cls \notin {"Mailbox", "Attendee"}
    /\ e.cls \in HIdentityDelegating => ~PyTruthy(IdOf(e))

\* The field called n of class c.
HField(c, n) == HFields(c)[CHOOSE i \in 1..Len(HFields(c)) : HFields(c)[i].name = n]

\* What a value is to a field's part of the hash: a list is its items, and an
\* absent or empty list is no items.
Items(c, n, val) ==
    IF HField(c, n).is_list THEN (IF val = PyNone THEN <<>> ELSE val.items) ELSE <<val>>

\* ents[2] is ents[1] with one field, not the identity, given another value.
OneFieldChanged ==
    /\ ents[1].cls = ents[2].cls
    /\ Cardinality(DifferIn(ents[1], ents[2])) = 1
    /\ "_id" \notin DifferIn(ents[1], ents[2])

NamedPairs(e) ==
    [i \in 1..Len(HFields(e.cls)) |->
        [name |-> FieldVals(e)[i].name,
         val |-> Items(e.cls, FieldVals(e)[i].name, FieldVals(e)[i].val)]]

\* C17: two entities without an identity are equal if and only if their ordered
\* tuples of (field name, normalized value) pairs are equal, so that the same
\* values under other field names do not make two entities equal.
C17_EqualIffNamedPairs ==
    (/\ Comparing /\ hres.exc = "none"
     /\ StructurallyHashed(ents[1]) /\ StructurallyHashed(ents[2]))
        => (hres.val <=> NamedPairs(ents[1]) = NamedPairs(ents[2]))

\* ents[1] and ents[2] differ only in an enumerated field, which one holds as the
\* index and the other as the wire string of that index.
IndexVersusString ==
    /\ ents[1].cls = ents[2].cls
    /\ \E n \in HNames(ents[1].cls) :
          /\ DifferIn(ents[1], ents[2]) = {n}
          /\ HField(ents[1].cls, n).is_enum
          /\ \E j, k \in 1..2 :
                /\ j # k
                /\ ents[j].vals[n].t = "int"
                /\ ents[k].vals[n] = PyStr(AsString(ents[j].vals[n].n))

\* C18: two entities of one type that differ only in holding an enumerated field
\* as its integer index versus as the corresponding wire string have equal hashes
\* and compare equal.
C18_EnumNormalizedInHash ==
    Comparing /\ IndexVersusString => hres.exc = "none" /\ hres.ha = hres.hb /\ hres.val

(***************************************************************************)
(* Properties of the identity pair of an identity-delegating entity        *)
(* (SpecEntity).                                                           *)
(***************************************************************************)
OtherOf(key) == IF key = "id" THEN "changekey" ELSE "id"

\* C19: an identity-delegating entity built without id and changekey has no nested
\* identity and reads None for both; every write to id or changekey is read back
\* from that name, leaves what the other name reads, and leaves a nested identity
\* in place.
C19_LazyIdentity ==
    [][/\ (/\ eres'.op = "init" /\ eres'.exc = "none"
           /\ Props(eres'.type) # {}
           /\ eres'.keys \cap {"id", "changekey", "_id"} = {})
          => /\ attrs'["_id"] = ValNone
             /\ PropGet(attrs', "id") = ValNone
             /\ PropGet(attrs', "changekey") = ValNone
       /\ (/\ eres'.op = "setattr" /\ eres'.key \in {"id", "changekey"}
           /\ Props(etype) # {}
           /\ GetterOk(attrs))
          => /\ eres'.exc = "none"
             /\ attrs'["_id"].kind = "ItemId"
             /\ PropGet(attrs', eres'.key) = eres'.val
             /\ PropGet(attrs', OtherOf(eres'.key)) = PropGet(attrs, OtherOf(eres'.key))]_vars

\* changekey was written after id: both are read back.
C19_Witness ==
    /\ etype = "UserConfiguration"
    /\ eres.op = "setattr" /\ eres.key = "changekey" /\ eres.val = ValEmptyText
    /\ attrs["_id"] = IdObj(ValText, ValEmptyText)

Normal5(o) == IF o = PyInt(0 - 1) THEN PyInt(5) ELSE o

\* Two transitions of one class that differ only in -1 versus 5.
LastVersusLast(a, b) ==
    /\ a.cls = b.cls
    /\ DifferIn(a, b) = {"occurrence"}
    /\ {a.vals["occurrence"], b.vals["occurrence"]} = {PyInt(0 - 1), PyInt(5)}

\* C21: a clean that succeeds and a from_xml leave the occurrence normalized (a -1
\* has become 5, 5 and every other value are as they were, never -1), and two
\* transitions that differed only in -1 versus 5 are equal once both are validated
\* or unmarshalled.
C21_OccurrenceNormalized ==
    [][/\ (tzres'.op \in {"clean", "from_xml"} /\ tzres'.exc = "none")
          => /\ tzin'.ent[tzres'.k].vals["occurrence"]
                    = Normal5(tzin.ent[tzres'.k].vals["occurrence"])
             /\ tzin'.ent[tzres'.k].vals["occurrence"] # PyInt(0 - 1)
             /\ DifferIn(tzin'.ent[tzres'.k], tzin.ent[tzres'.k]) \subseteq {"occurrence"}
       /\ (tzres'.op = "eq" /\ tzin.done = {1, 2} /\ LastVersusLast(tzin.orig[1], tzin.orig[2]))
          => tzres'.val]_vars

\* A -1 was cleaned, a 5 was unmarshalled, and the two were found equal.
C21_Witness ==
    /\ tzres.op = "eq" /\ tzres.val
    /\ tzin.done = {1, 2}
    /\ tzin.orig[1].vals["occurrence"] = PyInt(0 - 1)
    /\ tzin.orig[2].vals["occurrence"] = PyInt(5)
    /\ LastVersusLast(tzin.orig[1], tzin.orig[2])
    /\ tzin.ent[1].vals["occurrence"] = PyInt(5)

(***************************************************************************)
(* Properties of from_server_timezone (SpecDerive).                        *)
(***************************************************************************)
\* from_server_timezone has run on the tables of tzin.
HasDerived == tzin # NoVal /\ tzres # NoVal /\ tzres.op = "derive"

\* The years of the Standard periods that do not exceed the target year.
StandardYears == {k.year : k \in {j \in DOMAIN tzin.periods :
                                    j.type = "Standard" /\ j.year <= tzin.for_year}}

\* Seconds in whole minutes: the m with 60 m <= secs < 60 (m + 1).
WholeMinutes(secs) == CHOOSE mm \in (0 - 200)..200 : 60 * mm <= secs /\ secs < 60 * mm + 60

\* The bias in minutes of the latest Standard period up to the target year.
BaseBias ==
    WholeMinutes(tzin.periods[PKey(CHOOSE y \in StandardYears :
                                       \A z \in StandardYears : z <= y, "Standard")].bias)

\* A StandardTime or DaylightTime that is present with bias 0.
DummyLike(v) == v # PyNone /\ v.vals["bias"] = PyInt(0)

\* The zone has no transition rule for the target year: no transition group at all,
\* or a selected group without transitions.
ZeroRules ==
    \/ DOMAIN tzin.transitions = {}
    \/ tzres.out.tg # 0 /\ tzin.groups[tzres.out.tg] = <<>>

\* C22: deriving a TimeZone for a zone with zero transition rules for the target
\* year (an empty transitions table, or a selected group with zero transitions)
\* succeeds, with the Standard period's bias in minutes and with StandardTime and
\* DaylightTime both present as dummies of bias 0.
C22_ZeroRulesGiveDummies ==
    (HasDerived /\ StandardYears # {} /\ ZeroRules) =>
        /\ tzres.out.exc = "none"
        /\ tzres.out.tz.vals["bias"] = PyInt(BaseBias)
        /\ DummyLike(tzres.out.tz.vals["standard_time"])
        /\ DummyLike(tzres.out.tz.vals["daylight_time"])

\* The groups whose effective year does not exceed the target year, a missing
\* date meaning from the beginning.
EffectiveGroups == {g \in DOMAIN tzin.transitions : tzin.transitions[g] <= tzin.for_year}

\* The groups of EffectiveGroups with the latest effective year.
LatestGroups == {g \in EffectiveGroups :
                    \A h \in EffectiveGroups : tzin.transitions[h] <= tzin.transitions[g]}

\* C23: the derivation selects the transition group with the latest effective year
\* that does not exceed the target year, whatever the order of the group ids, and
\* fails only when no group has such a year.
C23_LatestGroupSelected ==
    (HasDerived /\ StandardYears # {}) =>
        IF EffectiveGroups = {} THEN tzres.out.why = "NoValidTransition"
        ELSE tzres.out.tg \in LatestGroups

\* The group the derivation selected.
SelectedGroup == tzin.groups[tzres.out.tg]

\* Transition i of the selected group is a rule to a period named nm, and no later
\* transition of the group replaces what it made.
LastRuleTo(i, nm) ==
    /\ SelectedGroup[i].len = 5
    /\ tzin.periods[SelectedGroup[i].to].name = nm
    /\ \A j \in (i + 1)..Len(SelectedGroup) :
          SelectedGroup[j].len = 5 /\ tzin.periods[SelectedGroup[j].to].name # nm

\* A rule of the selected group has an offset below zero or of a day or more.
BadOffset ==
    \E i \in 1..Len(SelectedGroup) :
        /\ SelectedGroup[i].len = 5
        /\ (SelectedGroup[i].offset < 0 \/ SelectedGroup[i].offset >= SecondsPerDay)

\* C24: the derived bias is the bias in whole minutes of the latest Standard period
\* up to the target year, and the derivation fails if there is none; a StandardTime
\* built from a rule has bias 0 and a DaylightTime built from a rule has the
\* daylight period's bias in minutes minus the base bias; a rule whose offset is
\* negative or at least one day fails with ValueError.
C24_BiasArithmetic ==
    HasDerived =>
        /\ StandardYears = {} =>
              tzres.out.exc = "ValueError" /\ tzres.out.why = "NoStandardBias"
        /\ StandardYears # {} =>
              /\ tzres.out.why # "NoStandardBias"
              /\ tzres.out.bias = BaseBias
              /\ tzres.out.exc = "none" => tzres.out.tz.vals["bias"] = PyInt(BaseBias)
        /\ (tzres.out.exc = "none" /\ tzres.out.tg # 0) =>
              \A i \in 1..Len(SelectedGroup) :
                  /\ LastRuleTo(i, "Standard") =>
                        tzres.out.tz.vals["standard_time"].vals["bias"] = PyInt(0)
                  /\ LastRuleTo(i, "Daylight") =>
                        tzres.out.tz.vals["daylight_time"].vals["bias"]
                            = PyInt(WholeMinutes(tzin.periods[SelectedGroup[i].to].bias)
                                        - BaseBias)
        /\ (tzres.out.tg # 0 /\ BadOffset) =>
              /\ tzres.out.exc = "ValueError"
              /\ Len(SelectedGroup) <= 2 => tzres.out.why = "InvalidOffset"

\* A derivation from a period of a negative odd number of seconds, with a
\* DaylightTime built from a rule.
C24_Witness ==
    /\ HasDerived
    /\ tzres.out.exc = "none"
    /\ tzres.out.bias = 0 - 2
    /\ tzres.out.tg # 0
    /\ \E i \in 1..Len(SelectedGroup) : LastRuleTo(i, "Daylight")

\* A derivation that stopped at a rule with an offset of a day.
C24_OffsetWitness ==
    HasDerived /\ tzres.out.why = "InvalidOffset" /\ tzres.out.tg # 0 /\ BadOffset

(***************************************************************************)
(* Properties of to_server_timezone (SpecMatch).                           *)
(***************************************************************************)
\* to_server_timezone has run on the catalog of tzin.
HasMatched == tzin # NoVal /\ tzres # NoVal /\ tzres.op = "match"

\* What entry i of the catalog derives to for the year.
DerivedAt(i) ==
    FromServerTimezone(tzin.timezones[i].periods, tzin.timezones[i].transitions,
                       tzin.timezones[i].groups, tzin.for_year)

\* The entries from which a TimeZone can be derived.
Derivable == {i \in 1..Len(tzin.timezones) : DerivedAt(i).exc = "none"}

\* The entries that derive to a TimeZone structurally equal to the local one.
ExactEntries == {i \in Derivable : Eq(DerivedAt(i).tz, tzin.self).val}

\* The first of them in catalog order.
FirstExact == CHOOSE i \in ExactEntries : \A j \in ExactEntries : i <= j

\* Two times are absent on both sides, or present on both with equal bias.
Agree(ct, st) ==
    \/ ct = PyNone /\ st = PyNone
    \/ ct # PyNone /\ st # PyNone /\ ct.vals["bias"] = st.vals["bias"]

\* The qualifying candidates: the entries whose derived base bias, StandardTime and
\* DaylightTime agree with the local timezone.
QualifyingEntries ==
    {i \in Derivable :
        /\ DerivedAt(i).tz.vals["bias"] = tzin.self.vals["bias"]
        /\ Agree(DerivedAt(i).tz.vals["standard_time"], tzin.self.vals["standard_time"])
        /\ Agree(DerivedAt(i).tz.vals["daylight_time"], tzin.self.vals["daylight_time"])}

C26_FirstWitness ==
    /\ HasMatched
    /\ ExactEntries = {}
    /\ Derivable = 1..Len(tzin.timezones)
    /\ tzres.out.exc = "none"
    /\ \E i \in QualifyingEntries : i > tzres.out.id

\* No candidate: the search fails.
C26_NoneWitness ==
    /\ HasMatched
    /\ Derivable = 1..Len(tzin.timezones)
    /\ tzres.out.why = "NoMatchingTimezone"

\* C30: to_server_timezone finds a match whenever the catalog holds a matching
\* entry: an entry from which no TimeZone can be derived is skipped, so an exact or
\* bias-matching entry placed after it is still returned.
C30_UnderivableSkipped ==
    (HasMatched /\ Derivable # 1..Len(tzin.timezones)
                /\ ExactEntries \cup QualifyingEntries # {}) =>
        /\ tzres.out.exc = "none"
        /\ tzres.out.id \in ExactEntries \cup QualifyingEntries

(***************************************************************************)
(* Properties of failing and inherited schema extensions (SpecSchema).     *)
(***************************************************************************)
\* The call of thread t is one the claim names as failing: add_field after a name
\* the schema does not have, add_field of a name the schema has, remove_field of a
\* field the schema does not hold.
MustFail(t) ==
    IF call[t].op = "add_field"
    THEN \/ call[t].after \notin NamesOf(call[t].start)
         \/ call[t].field.name \in NamesOf(call[t].start)
    ELSE Occurrences(call[t].start, call[t].field) = 0

\* Thread t leaves the with block.
Leaves(t) == pc[t] = "release" /\ pc'[t] = "idle"

\* C27: add_field with an insert_after name that is not in the schema, add_field of
\* a name already in the schema and remove_field of a field not in the schema each
\* raise, leave the invoking type's schema with the same fields in the same order
\* and a consistent name index, and release the lock, so that a later add_field or
\* remove_field can begin.
C27_FailureChangesNothing ==
    [][\A t \in Mutators :
          Leaves(t) =>
              /\ MustFail(t) <=> call[t].exc # "none"
              /\ call[t].exc # "none" =>
                    /\ SchemaOf(call[t].cls)'.list = call[t].start
                    /\ NamesOf(SchemaOf(call[t].cls)'.list) = DOMAIN SchemaOf(call[t].cls)'.dict
                    /\ \A n \in DOMAIN SchemaOf(call[t].cls)'.dict :
                          \E i \in 1..Len(call[t].start) :
                              call[t].start[i] = SchemaOf(call[t].cls)'.dict[n]
                    /\ lock' = 0
                    /\ \A u \in Mutators : pc'[u] = "idle"]_vars

\* A call failed and a later call on another type went through.
C27_Witness ==
    \E t \in Mutators, u \in Mutators :
        /\ t # u
        /\ pc[t] = "idle" /\ pc[u] = "idle"
        /\ ncalls[t] = 1 /\ ncalls[u] = 1
        /\ call[t].exc # "none" /\ call[t].cls = "Mailbox"
        /\ call[u].exc = "none" /\ call[u].cls = "DLMailbox"
        /\ call[u].start = call[t].start

\* C28: through add_field or remove_field on a type T, a descendant of T without a
\* schema of its own shows what T shows, the new schema once the call has succeeded,
\* and a descendant whose schema was composed when it was defined keeps the schema
\* it had.
C28_InheritedNotComposed ==
    [][\A t \in Mutators : \A d \in Types :
          (pc[t] # "idle" /\ Parent(d) = call[t].cls) =>
              /\ own[d] = 0 =>
                    /\ SchemaOf(d)' = SchemaOf(call[t].cls)'
                    /\ (Leaves(t) /\ call[t].exc = "none") =>
                          /\ SchemaOf(d)'.list # call[t].start
                          /\ call[t].op = "add_field" =>
                                Occurrences(SchemaOf(d)'.list, call[t].field) = 1
                          /\ call[t].op = "remove_field" =>
                                Occurrences(SchemaOf(d)'.list, call[t].field)
                                    = Occurrences(call[t].start, call[t].field) - 1
              /\ own[d] # 0 => SchemaOf(d)' = SchemaOf(d)]_vars

\* add_field on Mailbox went through: DLMailbox shows the new schema,
\* EmailAddressTypeValue the one it was defined with.
C28_Witness ==
    \E t \in Mutators :
        /\ pc[t] = "idle" /\ ncalls[1] + ncalls[2] = 1
        /\ call[t].op = "add_field" /\ call[t].cls = "Mailbox" /\ call[t].exc = "none"
        /\ SchemaOf("DLMailbox").list = SchemaOf("Mailbox").list
        /\ Occurrences(SchemaOf("DLMailbox").list, call[t].field) = 1
        /\ SchemaOf("EmailAddressTypeValue").list = DefinedList("EmailAddressTypeValue")
        /\ Occurrences(SchemaOf("EmailAddressTypeValue").list, call[t].field) = 0

(***************************************************************************)
(* Equality against hashing for identity-delegating entities (SpecHash).   *)
(***************************************************************************)
\* C29: for an identity-delegating entity e and a value x, another entity or an
\* (id, changekey) tuple, e == x implies hash(e) == hash(x), also when e has no id
\* and x is (None, None).
C29_EqualImpliesSameHash ==
    /\ (hres.op = "eq_tuple" /\ hres.exc = "none" /\ hres.val) =>
          PyHash(ents[hres.k]) = hres.hb
    /\ (hres.op = "eq" /\ hres.exc = "none" /\ hres.val
            /\ ents[1].cls \in HIdentityDelegating) =>
          PyHash(ents[1]) = PyHash(ents[2])

=============================================================================
